---------------------------- MODULE Spec2Model ----------------------------
(***************************************************************************)
(* A model of the BGModel core: the versioned settings store               *)
(* (src/Settings.py), the event classes and their effect queries           *)
(* (src/BGBaseClasses.py, src/BGActionClasses.py).                         *)
(*                                                                         *)
(* Conventions                                                             *)
(*  - Instants are whole seconds.  time.localtime is taken in a zone with   *)
(*    offset 0 and no daylight saving: tm_hour, tm_min, tm_sec are the      *)
(*    hour, minute and second of (t mod 86400).                             *)
(*  - Python floats are modelled by exact integers in a fixed scale, named  *)
(*    at each definition; no operation of the model rounds unless the code  *)
(*    does (int(), //).                                                     *)
(*  - A timestamp string 'YYYY-MM-DD?HH:MM:SS' is the record                *)
(*    [sec |-> its instant, sep |-> the character between date and time];   *)
(*    two strings are equal iff the records are.                            *)
(***************************************************************************)
EXTENDS Integers, Sequences, FiniteSets, TLC

VARIABLES settings_24h,   \* UserSetting.settings_24h: <<timestamp, <<tod, value>>*>>*
          lookup,         \* the last settings query and what it returned
          containers,     \* the shared event container (a Python list)
          basal,          \* the BasalInsulin constructed last
          profile,        \* the TrueUserProfile handed to the effect queries
          query           \* the last effect query and what it returned

vars == <<settings_24h, lookup, containers, basal, profile, query>>

Idle == [op |-> "none"]

-----------------------------------------------------------------------------
(* Python helpers *)

\* seq[i] with Python's 0-based index, negative indices counting from the end
PyIndex(seq, i) == IF i < 0 THEN seq[Len(seq) + i + 1] ELSE seq[i + 1]

\* list.insert(index, x), 0 <= index <= len
PyInsert(seq, index, x) ==
    SubSeq(seq, 1, index) \o <<x>> \o SubSeq(seq, index + 1, Len(seq))

RECURSIVE SumSeq(_)
SumSeq(s) == IF s = <<>> THEN 0 ELSE Head(s) + SumSeq(Tail(s))

Max(a, b) == IF a >= b THEN a ELSE b
Min(a, b) == IF a <= b THEN a ELSE b

-----------------------------------------------------------------------------
(* src/Settings.py : UserSetting *)

\* time.mktime(time.strptime(x.replace('T',' '), "%Y-%m-%d %H:%M:%S"))
Mktime(timestamp) == timestamp.sec

\* list.sort(key=Mktime): a stable sort, here by insertion from the left
RECURSIVE SortInsert(_, _)
SortInsert(sorted, x) ==
    IF sorted = <<>> THEN <<x>>
    ELSE IF Mktime(Head(sorted)[1]) <= Mktime(x[1])
         THEN <<Head(sorted)>> \o SortInsert(Tail(sorted), x)
         ELSE <<x>> \o sorted

\* the list as appended to, not sorted
AppendOrder(seq) == seq

RECURSIVE SortByTime(_)
SortByTime(seq) ==
    IF seq = <<>> THEN <<>>
    ELSE SortInsert(SortByTime(SubSeq(seq, 1, Len(seq) - 1)), seq[Len(seq)])

\* the first snapshot whose timestamp string equals `timestamp` (0: none)
RECURSIVE FindSnapshot(_, _, _)
FindSnapshot(s24, timestamp, i) ==
    IF i > Len(s24) THEN 0
    ELSE IF s24[i][1] = timestamp THEN i
    ELSE FindSnapshot(s24, timestamp, i + 1)

\* settings_24h after getOrMakeSettingsSnapshot_list(timestamp)
getOrMakeSettingsSnapshot_list(s24, timestamp) ==
    IF FindSnapshot(s24, timestamp, 1) # 0 THEN s24
    ELSE SortByTime(Append(s24, <<timestamp, <<>>>>))

\* np.array(settings_list, dtype=[('time_seconds',int32),('value',float64)])
ToNumpyArray(settings_list) ==
    [i \in 1..Len(settings_list) |->
        [time_seconds |-> settings_list[i][1], value |-> settings_list[i][2]]]

\* int(dt.timedelta(hours=h).total_seconds()), the hour given in half-seconds:
\* int() truncates toward zero
SecondsOfHours(timeOfDay_hs) ==
    IF timeOfDay_hs >= 0 THEN timeOfDay_hs \div 2 ELSE -((-timeOfDay_hs) \div 2)

\* np.searchsorted(a, v, side='left'): binary search, a[lo-1] < v <= a[hi]
RECURSIVE BisectLeft(_, _, _, _)
BisectLeft(a, v, lo, hi) ==
    IF lo >= hi THEN lo
    ELSE LET mid == (lo + hi) \div 2
         IN  IF a[mid + 1] < v THEN BisectLeft(a, v, mid + 1, hi)
             ELSE BisectLeft(a, v, lo, mid)

\* np.searchsorted(a, v, side='right'): binary search, a[lo-1] <= v < a[hi]
RECURSIVE BisectRight(_, _, _, _)
BisectRight(a, v, lo, hi) ==
    IF lo >= hi THEN lo
    ELSE LET mid == (lo + hi) \div 2
         IN  IF a[mid + 1] <= v THEN BisectRight(a, v, mid + 1, hi)
             ELSE BisectRight(a, v, lo, mid)

SearchSortedLeft(a, v) == BisectLeft(a, v, 0, Len(a))

SearchSortedRight(a, v) == BisectRight(a, v, 0, Len(a))

\* the snapshot list after settings_list.insert(index, (timeOfDay_seconds, value))
InsertSetting(settings_list, timeOfDay_hs, value) ==
    LET timeOfDay_seconds == SecondsOfHours(timeOfDay_hs)
        first == [i \in 1..Len(settings_list) |-> settings_list[i][1]]
        index == IF Len(settings_list) > 0
                 THEN SearchSortedRight(first, timeOfDay_seconds) ELSE 0
    IN  PyInsert(settings_list, index, <<timeOfDay_seconds, value>>)

\* settings_24h after AddSettingToSnapshot(timestamp, timeOfDay_hr, value)
AddSettingToSnapshot(s24, timestamp, timeOfDay_hs, value) ==
    LET made == getOrMakeSettingsSnapshot_list(s24, timestamp)
        at   == FindSnapshot(made, timestamp, 1)
    IN  [made EXCEPT ![at] =
            <<timestamp, InsertSetting(made[at][2], timeOfDay_hs, value)>>]

\* getValidSnapshotAtTime with the upper comparison made inclusive
\* (the_time <= iov_1): a query at a snapshot's own timestamp gets the one before
RECURSIVE ValidSnapshotLoopInclusive(_, _, _)
ValidSnapshotLoopInclusive(s24, the_time, i) ==
    IF i >= Len(s24) - 1 THEN -1
    ELSE LET iov_0 == Mktime(s24[i + 1][1])
             iov_1 == Mktime(s24[i + 2][1])
         IN  IF (i = 0 /\ the_time < iov_0)
                \/ (the_time >= iov_0 /\ the_time <= iov_1)
             THEN i
             ELSE ValidSnapshotLoopInclusive(s24, the_time, i + 1)

\* the loop of getValidSnapshotAtTime: the 0-based index it returns at
RECURSIVE ValidSnapshotLoop(_, _, _)
ValidSnapshotLoop(s24, the_time, i) ==
    IF i >= Len(s24) - 1 THEN -1
    ELSE LET iov_0 == Mktime(s24[i + 1][1])
             iov_1 == Mktime(s24[i + 2][1])
         IN  IF (i = 0 /\ the_time < iov_0)
                \/ (the_time >= iov_0 /\ the_time < iov_1)
             THEN i
             ELSE ValidSnapshotLoop(s24, the_time, i + 1)

ValidSnapshotIndex(s24, timestamp) == ValidSnapshotLoop(s24, Mktime(timestamp), 0)

getValidSnapshotAtTime(s24, timestamp) ==
    ToNumpyArray(PyIndex(s24, ValidSnapshotIndex(s24, timestamp))[2])

AttributeError == "AttributeError"

\* UserSetting.GetSettingAtTime(settings, timeOfDay_hr)
GetSettingAtTime(settings, timeOfDay_hs) ==
    IF Len(settings) = 0 THEN AttributeError
    ELSE LET timeOfDay_seconds == SecondsOfHours(timeOfDay_hs)
             times == [i \in 1..Len(settings) |-> settings[i].time_seconds]
             index == SearchSortedRight(times, timeOfDay_seconds)
         IN  PyIndex(settings, index - 1).value


-----------------------------------------------------------------------------
(* src/Settings.py : TrueUserProfile (the parts the events use) *)

SecondsPerHour == 3600

\* time.localtime(t).tm_hour, .tm_min, .tm_sec
tm_hour(time_ut) == (time_ut % 86400) \div SecondsPerHour
tm_min(time_ut) == (time_ut % SecondsPerHour) \div 60
tm_sec(time_ut) == time_ut % 60

nBins == 48

\* TrueUserProfile.SettingsArrayToList(the_settings_array, outlist): outlist[i]
\* is the setting at hour i * 24 / len(outlist), here for the 48-entry lists
\* (hour i * 0.5, 3600 half-seconds each); the list is indexed from 1
SettingsArrayToList(the_settings_array) ==
    [b \in 1..nBins |-> GetSettingAtTime(the_settings_array, (b - 1) * 3600)]

\* TrueUserProfile.getBin(time_ut) = int(tm_hour / binWidth_hr), binWidth_hr = 0.5
ProfileGetBin(time_ut) == 2 * tm_hour(time_ut)

-----------------------------------------------------------------------------
(* src/BGActionClasses.py : the events *)

\* dt.timedelta(hours=6).total_seconds()
SixHours == 21600

\* time_step_hr = 0.1 hours, in seconds
TimeStep == 360

\* InsulinBolus(time_ut, insulin)
InsulinBolus(time_ut, insulin) ==
    [kind |-> "InsulinBolus", iov_0_utc |-> time_ut,
     iov_1_utc |-> time_ut + SixHours, affectsBG |-> TRUE, insulin |-> insulin]

\* TempBasal(iov_0_utc, iov_1_utc, basalFactor); basalFactor in hundredths
\* (100 is the nominal rate, the code's 1)
TempBasal(iov_0_utc, iov_1_utc, basalFactor) ==
    [kind |-> "TempBasal", iov_0_utc |-> iov_0_utc, iov_1_utc |-> iov_1_utc,
     affectsBG |-> FALSE, basalFactor |-> basalFactor]

\* Suspend(iov_0_utc, iov_1_utc): TempBasal.__init__ with basalFactor 0, and
\* its own class name
Suspend(iov_0_utc, iov_1_utc) ==
    [TempBasal(iov_0_utc, iov_1_utc, 0) EXCEPT !.kind = "Suspend"]

\* LiverFattyGlucose(time_start, time_end, BGEffect, Ta_tempBasal, fractionOfBasal)
\* Ta_tempBasal and Ta in 1/36000 hour (a tenth of a second), so that
\* Ta = Ta_tempBasal * 1.4 is exact
LiverFattyGlucose(time_start, time_end, BGEffect, Ta_tempBasal, fractionOfBasal) ==
    [kind |-> "LiverFattyGlucose", iov_0_utc |-> time_start,
     iov_1_utc |-> time_end + SixHours, affectsBG |-> TRUE,
     BGEffect |-> BGEffect, original_value |-> BGEffect,
     fractionOfBasal |-> fractionOfBasal,
     Ta_tempBasal |-> Ta_tempBasal, Ta |-> (Ta_tempBasal * 14) \div 10]

\* BGEventBase.IsTempBasal, IsSuspend, ...: the class name compared
IsTempBasal(c) == c.kind = "TempBasal"
IsSuspend(c) == c.kind = "Suspend"
IsBolus(c) == c.kind = "InsulinBolus"
IsBasalInsulin(c) == c.kind = "BasalInsulin"

-----------------------------------------------------------------------------
(* src/BGActionClasses.py : BasalInsulin.__init__ *)

\* BasalInsulin.getBin(time_ut) = int(2 * (tm_hour + tm_min/60.)), 0-based
BasalGetBin(time_ut) == (2 * (60 * tm_hour(time_ut) + tm_min(time_ut))) \div 60

\* the fattyEvents dict keyed by the override's whole interval
FattyKeyInterval(c) == <<c.iov_0_utc, c.iov_1_utc>>

\* the key of the fattyEvents dict: fattyEvents[c.iov_0_utc]
FattyKey(c) == c.iov_0_utc

\* the position of the fattyEvents entry with key k (0: the key is absent);
\* fattyEvents is the dict in insertion order
RECURSIVE FattyIndex(_, _, _)
FattyIndex(fattyEvents, k, i) ==
    IF i > Len(fattyEvents) THEN 0
    ELSE IF fattyEvents[i].key = k THEN i
    ELSE FattyIndex(fattyEvents, k, i + 1)

\* the entry's BGEffect assigned (=) where the code adds to it
FattyAssign(BGEffect, bolusSlice) == bolusSlice

\* fattyEvents[c.iov_0_utc]['BGEffect'] += bolusSlice
FattyAccumulate(BGEffect, bolusSlice) == BGEffect + bolusSlice

\* the TempBasal coverage test with the strict comparisons of the Suspend scan
TempBasalCoversStrict(c, time_ut) == c.iov_0_utc < time_ut /\ time_ut < c.iov_1_utc

\* the coverage test of the TempBasal scan: skip when
\* c.iov_0_utc > time_ut or time_ut > c.iov_1_utc
TempBasalCovers(c, time_ut) == ~(c.iov_0_utc > time_ut \/ time_ut > c.iov_1_utc)

\* the coverage test of the Suspend scan
SuspendCovers(c, time_ut) == c.iov_0_utc < time_ut /\ time_ut < c.iov_1_utc

\* whether the TempBasal scan opens or feeds a fattyEvents entry
FactorCompensated(basalFactor) == basalFactor > 100

\* "for c in containers" of the TempBasal scan, from position i on.
\* bolus_val is BasalRates[bin] * time_step_hr (rate unit x 0.1 h);
\* bolusSlice = -insulin_sensi * bolus_val * (basalFactor - 1), in hundredths
RECURSIVE TempBasalScan(_, _, _, _, _, _, _)
TempBasalScan(conts, i, time_ut, basalFactor, fattyEvents, insulin_sensi, bolus_val) ==
    IF i > Len(conts) THEN [basalFactor |-> basalFactor, fattyEvents |-> fattyEvents]
    ELSE LET c == conts[i] IN
         IF ~IsTempBasal(c) \/ ~TempBasalCovers(c, time_ut)
         THEN TempBasalScan(conts, i + 1, time_ut, basalFactor, fattyEvents,
                            insulin_sensi, bolus_val)
         ELSE IF ~FactorCompensated(c.basalFactor)
         THEN TempBasalScan(conts, i + 1, time_ut, c.basalFactor, fattyEvents,
                            insulin_sensi, bolus_val)
         ELSE LET bolusSlice == -insulin_sensi * bolus_val * (c.basalFactor - 100)
                  at == FattyIndex(fattyEvents, FattyKey(c), 1)
                  fatty ==
                      IF at = 0
                      THEN Append(fattyEvents,
                               [key |-> FattyKey(c),
                                iov_0_utc |-> c.iov_0_utc, iov_1_utc |-> c.iov_1_utc,
                                BGEffect |-> bolusSlice,
                                Ta_tempBasal |-> 10 * (c.iov_1_utc - c.iov_0_utc),
                                fractionOfBasal |-> c.basalFactor - 100])
                      ELSE [fattyEvents EXCEPT
                               ![at].BGEffect = FattyAccumulate(@, bolusSlice)]
              IN  TempBasalScan(conts, i + 1, time_ut, c.basalFactor, fatty,
                                insulin_sensi, bolus_val)

\* "for c in containers" of the Suspend scan, from position i on
RECURSIVE SuspendScan(_, _, _, _)
SuspendScan(conts, i, time_ut, basalFactor) ==
    IF i > Len(conts) THEN basalFactor
    ELSE LET c == conts[i] IN
         IF IsSuspend(c) /\ SuspendCovers(c, time_ut)
         THEN SuspendScan(conts, i + 1, time_ut, c.basalFactor)
         ELSE SuspendScan(conts, i + 1, time_ut, basalFactor)

\* a loop that scans for a Suspend first and accumulates the deficit of the
\* step from the dose the Suspend leaves
RECURSIVE BasalLoopSuspendFirst(_, _, _, _, _, _, _)
BasalLoopSuspendFirst(time_ut, iov_1_utc, BasalRates, Sensitivity, conts, boluses, fatty) ==
    IF ~(time_ut < iov_1_utc)
    THEN [basalBoluses |-> boluses, fattyEvents |-> fatty]
    ELSE LET bolus_val == BasalRates[BasalGetBin(time_ut) + 1]
             insulin_sensi == Sensitivity[BasalGetBin(time_ut) + 1]
             suspended == SuspendScan(conts, 1, time_ut, 100)
             temp == TempBasalScan(conts, 1, time_ut, 100, fatty,
                                   insulin_sensi, (bolus_val * suspended) \div 100)
             basalFactor == SuspendScan(conts, 1, time_ut, temp.basalFactor)
             minibolus == InsulinBolus(time_ut, bolus_val * basalFactor)
         IN  BasalLoopSuspendFirst(time_ut + TimeStep, iov_1_utc, BasalRates, Sensitivity,
                                   conts, Append(boluses, minibolus),
                                   temp.fattyEvents)

\* "while time_ut < iov_1_utc": the micro-boluses and the fattyEvents dict at
\* the end of the loop.  A micro-bolus dose is bolus_val * basalFactor, in
\* thousandths of (rate unit x hour)
RECURSIVE BasalLoop(_, _, _, _, _, _, _)
BasalLoop(time_ut, iov_1_utc, BasalRates, Sensitivity, conts, basalBoluses, fattyEvents) ==
    IF ~(time_ut < iov_1_utc)
    THEN [basalBoluses |-> basalBoluses, fattyEvents |-> fattyEvents]
    ELSE LET bolus_val == BasalRates[BasalGetBin(time_ut) + 1]
             insulin_sensi == Sensitivity[BasalGetBin(time_ut) + 1]
             temp == TempBasalScan(conts, 1, time_ut, 100, fattyEvents,
                                   insulin_sensi, bolus_val)
             basalFactor == SuspendScan(conts, 1, time_ut, temp.basalFactor)
             minibolus == InsulinBolus(time_ut, bolus_val * basalFactor)
         IN  BasalLoop(time_ut + TimeStep, iov_1_utc, BasalRates, Sensitivity, conts,
                       Append(basalBoluses, minibolus), temp.fattyEvents)

\* tmp_InsulinSensitivityList: from an array (np.array), a list, or neither
SensitivityList(sensitivities) ==
    IF sensitivities.type = "array" THEN SettingsArrayToList(sensitivities.data)
    ELSE IF sensitivities.type = "list" THEN sensitivities.data
    ELSE [b \in 1..nBins |-> 0]

\* "Rounded down to the nearest hour"
HourAligned(iov_0_utc) == iov_0_utc - 60 * tm_min(iov_0_utc) - tm_sec(iov_0_utc)

\* the new events put in front of the container
PrependEvents(conts, events) == events \o conts

\* containers.append(...) for each of the fatty events, in their order
AppendEvents(conts, events) == conts \o events

\* BasalInsulin(iov_0_utc, iov_1_utc, basal_rates, sensitivities, containers):
\* the event constructed and the container it leaves
BasalInsulin(iov_0_utc, iov_1_utc, basal_rates, sensitivities, conts) ==
    LET BasalRates == SettingsArrayToList(basal_rates)
        done == BasalLoop(HourAligned(iov_0_utc), iov_1_utc, BasalRates,
                          SensitivityList(sensitivities), conts, <<>>, <<>>)
        fe == done.fattyEvents
        fatty == [k \in 1..Len(fe) |->
                    LiverFattyGlucose(fe[k].iov_0_utc, fe[k].iov_1_utc, fe[k].BGEffect,
                                      fe[k].Ta_tempBasal, fe[k].fractionOfBasal)]
    IN  [event |-> [kind |-> "BasalInsulin", iov_0_utc |-> iov_0_utc,
                    iov_1_utc |-> iov_1_utc, affectsBG |-> TRUE,
                    BasalRates |-> BasalRates, basalBoluses |-> done.basalBoluses],
         containers |-> AppendEvents(conts, fatty)]

-----------------------------------------------------------------------------
(* The settings store as a state machine *)

SecondsPerDay == 86400

\* effective-since timestamps run over days 1..MaxStampDay
MaxStampDay == 2

\* at most MaxEntries (timeOfDay, value) entries over all snapshots
MaxEntries == 2

\* timestamps a caller supplies: Tidepool style ('T'), and one day also in
\* the style with a blank
Stamps ==
    {[sec |-> d * SecondsPerDay, sep |-> "T"] : d \in 1..MaxStampDay}
    \cup {[sec |-> 2 * SecondsPerDay, sep |-> " "]}

\* timestamps a query is made at: before, at, between and after the snapshots
QueryStamps ==
    {[sec |-> d * SecondsPerDay + o, sep |-> "T"] :
        d \in 0..MaxStampDay, o \in {0, SecondsPerDay \div 2}}

\* hours of the day, in half-seconds: 0h, 0.5h, 0.5h + 0.5s, 23h
EntryHours == {0, 3600, 3601, 165600}

\* hours of the day a value is asked for, in half-seconds:
\* 0h, just under 0.5h, 0.5h, 12h, just under 24h
QueryHours == {0, 3599, 3600, 86400, 172799}

Values == {10, 20}

IndexError == "IndexError"

TotalEntries(s24) == SumSeq([i \in 1..Len(s24) |-> Len(s24[i][2])])

InitIdle ==
    /\ settings_24h = <<>>
    /\ lookup = Idle
    /\ containers = <<>>
    /\ basal = Idle
    /\ profile = Idle
    /\ query = Idle

InitSettings == InitIdle

\* UserSetting.getOrMakeSettingsSnapshot(timestamp)
DoGetOrMakeSettingsSnapshot ==
    \E timestamp \in Stamps :
        LET made == getOrMakeSettingsSnapshot_list(settings_24h, timestamp)
        IN  /\ settings_24h' = made
            /\ lookup' = [op |-> "getOrMakeSettingsSnapshot",
                          timestamp |-> timestamp,
                          result |-> ToNumpyArray(
                              made[FindSnapshot(made, timestamp, 1)][2])]
            /\ UNCHANGED <<containers, basal, profile, query>>

\* UserSetting.AddSettingToSnapshot(timestamp, timeOfDay_hr, value)
DoAddSettingToSnapshot ==
    \E timestamp \in Stamps, timeOfDay_hs \in EntryHours, value \in Values :
        /\ TotalEntries(settings_24h) < MaxEntries
        /\ settings_24h' =
               AddSettingToSnapshot(settings_24h, timestamp, timeOfDay_hs, value)
        /\ lookup' = [op |-> "AddSettingToSnapshot", timestamp |-> timestamp]
        /\ UNCHANGED <<containers, basal, profile, query>>

\* UserSetting.getValidSnapshotAtTime(timestamp)
DoGetValidSnapshotAtTime ==
    \E timestamp \in QueryStamps :
        /\ lookup' = [op |-> "getValidSnapshotAtTime",
                      timestamp |-> timestamp,
                      result |-> IF Len(settings_24h) = 0 THEN IndexError
                                 ELSE getValidSnapshotAtTime(settings_24h, timestamp)]
        /\ UNCHANGED <<settings_24h, containers, basal, profile, query>>

\* UserSetting.GetSettingAtTime(settings, timeOfDay_hr) on the array of one of
\* the store's snapshots (as latestSettingsSnapshot and getValidSnapshotAtTime
\* hand it out)
DoGetSettingAtTime ==
    \E i \in 1..Len(settings_24h), timeOfDay_hs \in QueryHours :
        /\ LET settings == ToNumpyArray(settings_24h[i][2])
           IN  lookup' = [op |-> "GetSettingAtTime",
                          settings |-> settings,
                          timeOfDay_hs |-> timeOfDay_hs,
                          result |-> GetSettingAtTime(settings, timeOfDay_hs)]
        /\ UNCHANGED <<settings_24h, containers, basal, profile, query>>

NextSettings ==
    \/ DoGetOrMakeSettingsSnapshot
    \/ DoAddSettingToSnapshot
    \/ DoGetValidSnapshotAtTime
    \/ DoGetSettingAtTime

SpecSettings == InitSettings /\ [][NextSettings]_vars

-----------------------------------------------------------------------------
(* Claims about the settings store *)

\* the positions of the snapshots whose effective timestamp is the greatest
\* one at or before instant q; those of the earliest when there is none
SnapshotsInForceAt(s24, q) ==
    LET all    == 1..Len(s24)
        before == {i \in all : Mktime(s24[i][1]) <= q}
    IN  IF before # {}
        THEN {i \in before :
                 \A j \in before : Mktime(s24[j][1]) <= Mktime(s24[i][1])}
        ELSE {i \in all : \A j \in all : Mktime(s24[i][1]) <= Mktime(s24[j][1])}

\* C9: with one or more snapshots, getValidSnapshotAtTime(q) returns the
\* snapshot whose effective timestamp is the greatest one <= q (a query equal
\* to a snapshot's timestamp selects that snapshot), and the earliest snapshot
\* when q is earlier than every effective timestamp.
C9_ValidSnapshotIsLatestAtOrBefore ==
    (lookup.op = "getValidSnapshotAtTime" /\ Len(settings_24h) >= 1) =>
        \E i \in SnapshotsInForceAt(settings_24h, Mktime(lookup.timestamp)) :
            lookup.result = ToNumpyArray(settings_24h[i][2])

\* a query exactly at the timestamp of the second of two differing snapshots
\* returned the second
C9_Witness ==
    /\ lookup.op = "getValidSnapshotAtTime"
    /\ Len(settings_24h) >= 2
    /\ Mktime(lookup.timestamp) = Mktime(settings_24h[2][1])
    /\ Mktime(settings_24h[1][1]) < Mktime(settings_24h[2][1])
    /\ settings_24h[1][2] # settings_24h[2][2]
    /\ lookup.result = ToNumpyArray(settings_24h[2][2])

\* the entries of a snapshot array that answer hour h (in half-seconds): those
\* with the greatest time_seconds <= h * 3600, or with the greatest
\* time_seconds of all when none is at or before h
EntriesInForceAt(settings, timeOfDay_hs) ==
    LET all    == 1..Len(settings)
        before == {i \in all : 2 * settings[i].time_seconds <= timeOfDay_hs}
        latest(S) == {i \in S : \A j \in S :
                        settings[j].time_seconds <= settings[i].time_seconds}
    IN  IF before # {} THEN latest(before) ELSE latest(all)

\* C10: for a non-empty snapshot built by AddSettingToSnapshot calls in any
\* order and 0 <= h < 24, GetSettingAtTime returns the value of the entry with
\* the greatest timeOfDaySeconds <= h x 3600, and wraps to the entry with the
\* greatest timeOfDaySeconds when no entry is at or before h.
C10_SettingAtTimeIsLatestAtOrBefore ==
    (lookup.op = "GetSettingAtTime" /\ Len(lookup.settings) >= 1) =>
        \E i \in EntriesInForceAt(lookup.settings, lookup.timeOfDay_hs) :
            lookup.result = lookup.settings[i].value

\* a value registered at hour 23 answered a query before 0.5h, with another
\* value registered at 0.5h
C10_Witness ==
    /\ lookup.op = "GetSettingAtTime"
    /\ Len(lookup.settings) >= 2
    /\ lookup.timeOfDay_hs = 3599
    /\ \E i, j \in 1..Len(lookup.settings) :
          /\ lookup.settings[i].time_seconds = 82800
          /\ lookup.settings[j].time_seconds = 1800
          /\ lookup.settings[i].value # lookup.settings[j].value
          /\ lookup.result = lookup.settings[i].value
    /\ \A i \in 1..Len(lookup.settings) : lookup.settings[i].time_seconds > 0

\* the snapshots are in non-decreasing order of effective timestamp
SortedByTime(s24) ==
    \A i, j \in 1..Len(s24) : i < j => Mktime(s24[i][1]) <= Mktime(s24[j][1])

\* the positions of the snapshots whose timestamp string is `timestamp`
SnapshotsOf(s24, timestamp) == {i \in 1..Len(s24) : s24[i][1] = timestamp}

\* C11: after every getOrMakeSettingsSnapshot or AddSettingToSnapshot call,
\* with timestamps supplied in any order, settings_24h is sorted in
\* non-decreasing order of effective timestamp and holds the timestamp of the
\* call once; a call for a timestamp already present adds no snapshot, and
\* getOrMakeSettingsSnapshot then returns the existing snapshot and leaves
\* the list as it was.
C11_SnapshotsSortedAndUnique ==
    [][lookup'.op \in {"getOrMakeSettingsSnapshot", "AddSettingToSnapshot"} =>
          /\ SortedByTime(settings_24h')
          /\ Cardinality(SnapshotsOf(settings_24h', lookup'.timestamp)) = 1
          /\ SnapshotsOf(settings_24h, lookup'.timestamp) # {} =>
                /\ Len(settings_24h') = Len(settings_24h)
                /\ lookup'.op = "getOrMakeSettingsSnapshot" =>
                      /\ settings_24h' = settings_24h
                      /\ \E i \in SnapshotsOf(settings_24h, lookup'.timestamp) :
                            lookup'.result = ToNumpyArray(settings_24h[i][2])
      ]_vars

\* getOrMakeSettingsSnapshot returned a snapshot that already held an entry,
\* the earlier of two snapshots of differing effective timestamps
C11_Witness ==
    /\ lookup.op = "getOrMakeSettingsSnapshot"
    /\ Len(settings_24h) >= 2
    /\ lookup.timestamp = settings_24h[1][1]
    /\ Mktime(settings_24h[1][1]) < Mktime(settings_24h[Len(settings_24h)][1])
    /\ Len(lookup.result) >= 1

-----------------------------------------------------------------------------
(* BasalInsulin construction over a container of rate overrides: the caller *)
(* fills the container, then constructs one BasalInsulin over it            *)

\* at most MaxEvents events are put into the container by the caller
MaxEvents == 2

\* 12:00:00 of day 1
Noon == SecondsPerDay + 12 * SecondsPerHour

Minutes(m) == 60 * m

\* validity intervals of the overrides, in minutes after noon: they start and
\* end on a 6-minute step (0, 12, 36) or between two steps (21)
OverrideSpans == {<<0, 12>>, <<0, 36>>, <<12, 36>>, <<21, 36>>}

\* multipliers of the TempBasal events, in hundredths
Factors == {100, 150, 200}

\* validity intervals of the BasalInsulin, in minutes after noon
BasalSpans == {<<0, 18>>, <<0, 36>>, <<15, 18>>, <<15, 36>>}

\* a basal-rate schedule as a settings array: 10 from 00:00, 20 from 12:30
BasalRateArrays ==
    {<<[time_seconds |-> 0, value |-> 10], [time_seconds |-> 45000, value |-> 20]>>}

\* insulin sensitivities as BasalInsulin takes them: a settings array (the
\* values as entered), or a profile's 48-entry list (the values negated)
SensitivityInputs ==
    {[type |-> "array",
      data |-> <<[time_seconds |-> 0, value |-> 40],
                 [time_seconds |-> 45000, value |-> 50]>>],
     [type |-> "list",
      data |-> [b \in 1..nBins |-> IF b <= 25 THEN -40 ELSE -50]]}

InitBasal == InitIdle

\* containers.append(TempBasal(iov_0_utc, iov_1_utc, basalFactor))
AddTempBasal ==
    \E span \in OverrideSpans, basalFactor \in Factors :
        /\ basal.op = "none"
        /\ Len(containers) < MaxEvents
        /\ containers' = Append(containers,
               TempBasal(Noon + Minutes(span[1]), Noon + Minutes(span[2]), basalFactor))
        /\ UNCHANGED <<settings_24h, lookup, basal, profile, query>>

\* containers.append(Suspend(iov_0_utc, iov_1_utc))
AddSuspend ==
    \E span \in OverrideSpans :
        /\ basal.op = "none"
        /\ Len(containers) < MaxEvents
        /\ containers' = Append(containers,
               Suspend(Noon + Minutes(span[1]), Noon + Minutes(span[2])))
        /\ UNCHANGED <<settings_24h, lookup, basal, profile, query>>

\* BasalInsulin(iov_0_utc, iov_1_utc, basal_rates, sensitivities, containers)
ConstructBasalInsulin ==
    \E span \in BasalSpans, basal_rates \in BasalRateArrays,
       sensitivities \in SensitivityInputs :
        /\ basal.op = "none"
        /\ LET made == BasalInsulin(Noon + Minutes(span[1]), Noon + Minutes(span[2]),
                                    basal_rates, sensitivities, containers)
           IN  /\ containers' = made.containers
               /\ basal' = [op |-> "BasalInsulin",
                            event |-> made.event,
                            Sensitivity |-> SensitivityList(sensitivities),
                            scanned |-> Len(containers)]
        /\ UNCHANGED <<settings_24h, lookup, profile, query>>

NextBasal ==
    \/ AddTempBasal
    \/ AddSuspend
    \/ ConstructBasalInsulin

SpecBasal == InitBasal /\ [][NextBasal]_vars

-----------------------------------------------------------------------------
(* Claims about BasalInsulin construction *)

Built == basal.op = "BasalInsulin"

\* the events the construction scanned, and those it appended
Scanned == 1..basal.scanned
Appended == (basal.scanned + 1)..Len(containers)

\* the 6-minute steps of the construction: from the hour-aligned time at or
\* before iov_0_utc, while before iov_1_utc
ScannedSteps ==
    LET from == HourAligned(basal.event.iov_0_utc)
        to   == basal.event.iov_1_utc
    IN  IF to <= from THEN {}
        ELSE {from + TimeStep * k : k \in 0..((to - from - 1) \div TimeStep)}

\* validityStart <= t <= validityEnd
InValidity(c, t) == c.iov_0_utc <= t /\ t <= c.iov_1_utc

SuspendsCovering(t) ==
    {i \in Scanned : containers[i].kind = "Suspend" /\ InValidity(containers[i], t)}

OverridesCovering(t) ==
    {i \in Scanned : containers[i].kind = "TempBasal" /\ InValidity(containers[i], t)}

RaisedOverridesCovering(t) ==
    {i \in OverridesCovering(t) : containers[i].basalFactor > 100}

\* the greatest element of a non-empty set of positions
Last(S) == CHOOSE i \in S : \A j \in S : j <= i

\* the micro-boluses emitted for step t
BolusesAt(t) ==
    {i \in 1..Len(basal.event.basalBoluses) :
        basal.event.basalBoluses[i].iov_0_utc = t}

\* exactly one micro-bolus is emitted for step t, with this dose
StepDoseIs(t, dose) ==
    /\ Cardinality(BolusesAt(t)) = 1
    /\ \A i \in BolusesAt(t) : basal.event.basalBoluses[i].insulin = dose

\* the nominal dose of step t: half-hour-bin rate x 0.1 h
NominalDose(t) == basal.event.BasalRates[(2 * (t % SecondsPerDay)) \div SecondsPerHour + 1]

\* C1: for every step t in the validity interval of a Suspend of the
\* container (validityStart <= t <= validityEnd), the micro-bolus emitted for
\* t has dose 0, whatever TempRateOverride events also cover t.
C1_SuspendedStepHasDoseZero ==
    Built => \A t \in ScannedSteps :
                SuspendsCovering(t) # {} => StepDoseIs(t, 0)

\* C2 as stated: with no Suspend active and some override with multiplier > 1
\* covering t, the dose is the nominal dose times the multiplier of the last
\* covering override that has multiplier > 1.
C2_LastRaisedOverrideSetsMultiplier ==
    Built => \A t \in ScannedSteps :
                (SuspendsCovering(t) = {} /\ RaisedOverridesCovering(t) # {}) =>
                    StepDoseIs(t, NominalDose(t)
                        * containers[Last(RaisedOverridesCovering(t))].basalFactor)

\* C2 as amended: with no Suspend covering t and some override with
\* multiplier > 1 covering t, the dose is the nominal dose times the multiplier
\* of the last override, in container order, that covers t, whatever its
\* multiplier.
C2_LastCoveringOverrideSetsMultiplier ==
    Built => \A t \in ScannedSteps :
                (SuspendsCovering(t) = {} /\ RaisedOverridesCovering(t) # {}) =>
                    StepDoseIs(t, NominalDose(t)
                        * containers[Last(OverridesCovering(t))].basalFactor)

\* a step covered by a raised override and, later in the container, by one of
\* multiplier 1, with no Suspend: the dose is the nominal one
C2_Witness ==
    /\ Built
    /\ \E t \in ScannedSteps :
          /\ SuspendsCovering(t) = {}
          /\ RaisedOverridesCovering(t) # {}
          /\ Last(OverridesCovering(t)) > Last(RaisedOverridesCovering(t))
          /\ StepDoseIs(t, NominalDose(t) * 100)
          /\ NominalDose(t) > 0

\* the validityStarts of the overrides with multiplier > 1 that cover at least
\* one scanned step
CompensatedStarts ==
    {containers[i].iov_0_utc :
        i \in {j \in Scanned : \E t \in ScannedSteps : j \in RaisedOverridesCovering(t)}}

\* C3: one construction appends exactly one LiverFattyGlucose event for each
\* distinct validityStart among the overrides with multiplier > 1 that cover a
\* scanned step, and nothing else.
C3_OneFattyEventPerOverrideStart ==
    Built =>
        /\ \A j \in Appended :
              /\ containers[j].kind = "LiverFattyGlucose"
              /\ containers[j].iov_0_utc \in CompensatedStarts
        /\ \A s \in CompensatedStarts :
              Cardinality({j \in Appended : containers[j].iov_0_utc = s}) = 1

\* two raised overrides with one validityStart and different ends, both
\* covering scanned steps, and a single event appended
C3_Witness ==
    /\ Built
    /\ Cardinality(Appended) = 1
    /\ \E i, j \in Scanned :
          /\ i # j
          /\ containers[i].iov_0_utc = containers[j].iov_0_utc
          /\ containers[i].iov_1_utc # containers[j].iov_1_utc
          /\ \E t \in ScannedSteps : i \in RaisedOverridesCovering(t)
          /\ \E t \in ScannedSteps : j \in RaisedOverridesCovering(t)

\* the sum of the values of a function over a finite domain
RECURSIVE SumFn(_)
SumFn(f) ==
    IF DOMAIN f = {} THEN 0
    ELSE LET x == CHOOSE x \in DOMAIN f : TRUE
         IN  f[x] + SumFn([y \in DOMAIN f \ {x} |-> f[y]])

\* -sensitivity[bin(t)] x basalRate[bin(t)] x 0.1 h x (m - 1) for the override
\* at position i, in the scale of BGEffect
Deficit(t, i) ==
    -basal.Sensitivity[(2 * (t % SecondsPerDay)) \div SecondsPerHour + 1]
        * NominalDose(t) * (containers[i].basalFactor - 100)

\* the deficits of the steps covered by the overrides in `overrides`
DeficitOver(overrides) ==
    SumFn([p \in {q \in ScannedSteps \X overrides :
                     q[2] \in RaisedOverridesCovering(q[1])} |-> Deficit(p[1], p[2])])

\* C4 as stated: the magnitude of the event created for an override with
\* multiplier > 1 is the sum of the deficits of the steps that override covers.
C4_MagnitudeIsDeficitOfTheOverride ==
    Built =>
        \A i \in Scanned :
            (\E t \in ScannedSteps : i \in RaisedOverridesCovering(t)) =>
                \E j \in Appended :
                    /\ containers[j].iov_0_utc = containers[i].iov_0_utc
                    /\ containers[j].BGEffect = DeficitOver({i})
                    /\ containers[j].original_value = DeficitOver({i})

\* C4 as amended: the magnitude (BGEffect and original_value) of the event
\* created for a validityStart is the sum of the deficits of every override
\* with multiplier > 1 and that validityStart over the steps it covers; its
\* sign is the opposite of the sign of the sensitivities passed in.
C4_MagnitudeIsDeficitOfTheStart ==
    Built =>
        \A j \in Appended :
            LET sharing == {i \in Scanned : containers[i].kind = "TempBasal"
                               /\ containers[i].iov_0_utc = containers[j].iov_0_utc}
            IN  /\ containers[j].BGEffect = DeficitOver(sharing)
                /\ containers[j].original_value = containers[j].BGEffect
                /\ (\A b \in 1..nBins : basal.Sensitivity[b] > 0
                                        /\ basal.event.BasalRates[b] > 0)
                       => containers[j].BGEffect < 0
                /\ (\A b \in 1..nBins : basal.Sensitivity[b] < 0
                                        /\ basal.event.BasalRates[b] > 0)
                       => containers[j].BGEffect > 0

\* an override of multiplier 1.5 covering several steps on both sides of a
\* half-hour boundary, alone at its validityStart, and its event
C4_Witness ==
    /\ Built
    /\ \E j \in Appended, i \in Scanned :
          /\ containers[i].kind = "TempBasal"
          /\ containers[i].basalFactor = 150
          /\ containers[i].iov_0_utc = containers[j].iov_0_utc
          /\ Cardinality({t \in ScannedSteps : i \in RaisedOverridesCovering(t)}) >= 3
          /\ \E t, u \in ScannedSteps :
                /\ i \in RaisedOverridesCovering(t)
                /\ i \in RaisedOverridesCovering(u)
                /\ NominalDose(t) # NominalDose(u)
          /\ containers[j].BGEffect = DeficitOver({i})
          /\ containers[j].BGEffect < 0

\* the steps of the construction counted from the hour of iov_0_utc: the
\* start of that hour plus k x 6 min, while before iov_1_utc
StepsFromTheHour ==
    LET from == basal.event.iov_0_utc - (basal.event.iov_0_utc % SecondsPerHour)
        to   == basal.event.iov_1_utc
    IN  {t \in from..(to - 1) : (t - from) % TimeStep = 0}

\* the deficits, over the steps in `steps`, of the overrides in `overrides`
\* that cover them with a multiplier > 1
DeficitOn(steps, overrides) ==
    SumFn([p \in {q \in steps \X overrides :
                     containers[q[2]].kind = "TempBasal"
                     /\ containers[q[2]].basalFactor > 100
                     /\ InValidity(containers[q[2]], q[1])} |-> Deficit(p[1], p[2])])

\* the steps whose micro-bolus has dose 0 under a Suspend, and the steps
\* before the validityStart of the BasalInsulin
SuspendedSteps ==
    {t \in StepsFromTheHour : SuspendsCovering(t) # {} /\ StepDoseIs(t, 0)}
EarlySteps == {t \in StepsFromTheHour : t < basal.event.iov_0_utc}

\* the scanned part of the container without its Suspend events
RECURSIVE WithoutSuspends(_)
WithoutSuspends(conts) ==
    IF conts = <<>> THEN <<>>
    ELSE IF Head(conts).kind = "Suspend" THEN WithoutSuspends(Tail(conts))
    ELSE <<Head(conts)>> \o WithoutSuspends(Tail(conts))

\* C22: the deficit of a step is accumulated before the Suspend scan and
\* independently of it: the magnitude of the LiverFattyGlucose of an override
\* start is the sum of -sensitivity x nominal dose x (m - 1) over the steps
\* its overrides with multiplier m > 1 cover, the steps whose micro-bolus a
\* Suspend has set to 0 and the steps before the BasalInsulin's validityStart
\* included; and the same construction over the container without its
\* Suspends accumulates the same compensations
C22_DeficitIndependentOfSuspend ==
    Built =>
        /\ \A j \in Appended :
              LET sharing == {i \in Scanned : containers[i].iov_0_utc = containers[j].iov_0_utc}
                  special == SuspendedSteps \cup EarlySteps
              IN  containers[j].BGEffect =
                      DeficitOn(StepsFromTheHour \ special, sharing)
                      + DeficitOn(special, sharing)
        /\ LET fe == BasalLoop(HourAligned(basal.event.iov_0_utc), basal.event.iov_1_utc,
                               basal.event.BasalRates, basal.Sensitivity,
                               WithoutSuspends(SubSeq(containers, 1, basal.scanned)),
                               <<>>, <<>>).fattyEvents
           IN  /\ Len(fe) = Cardinality(Appended)
               /\ \A k \in 1..Len(fe) :
                     /\ containers[basal.scanned + k].iov_0_utc = fe[k].iov_0_utc
                     /\ containers[basal.scanned + k].BGEffect = fe[k].BGEffect

\* a construction with a step under a raised override and a Suspend, whose
\* micro-bolus has dose 0, and a step before the validityStart under a raised
\* override, both with a deficit that is in the magnitude of an event
C22_Witness ==
    /\ Built
    /\ \E j \in Appended, i \in Scanned, t \in SuspendedSteps :
          /\ containers[i].iov_0_utc = containers[j].iov_0_utc
          /\ i \in RaisedOverridesCovering(t)
          /\ Deficit(t, i) # 0
          /\ containers[j].BGEffect # 0
    /\ \E j \in Appended, i \in Scanned, t \in EarlySteps :
          /\ containers[i].iov_0_utc = containers[j].iov_0_utc
          /\ i \in RaisedOverridesCovering(t)
          /\ Deficit(t, i) # 0
          /\ containers[j].BGEffect # 0

-----------------------------------------------------------------------------
(* src/BGBaseClasses.py : the action curve and the generic effect queries *)

\* the curve and its derivative are tabulated at t/Ta = k/CurveGrid
CurveGrid == 8

\* round(1000 * (1 - 0.05^((k/8)^2))) for k = 0..12; 1000 from k = 13 on
CurveTable == <<0, 46, 171, 344, 527, 690, 815, 899, 950, 977, 991, 997, 999>>

\* round(1000 * ln(20) * 2 * (k/8) * 0.05^((k/8)^2)) for k = 0..14; 0 from 15 on
DerivativeTable ==
    <<0, 715, 1242, 1474, 1417, 1162, 833, 529, 300, 152, 69, 29, 11, 4, 1>>

\* Ta is held in 1/36000 hour: time_hr / Ta = 10 * seconds / Ta
CurveIndex(time_s, Ta) == (10 * time_s * CurveGrid) \div Ta

\* InsulinActionCurve(time_hr, Ta), in thousandths, the time in seconds
InsulinActionCurve(time_s, Ta) ==
    IF time_s < 0 THEN 0
    ELSE LET k == CurveIndex(time_s, Ta)
         IN  IF k >= Len(CurveTable) THEN 1000 ELSE CurveTable[k + 1]

\* InsulinActionCurveDerivative(time_hr, Ta) per hour, in thousandths:
\* (1/Ta) * 2 ln(20) (t/Ta) 0.05^((t/Ta)^2), rounded down
InsulinActionCurveDerivative(time_s, Ta) ==
    IF time_s < 0 THEN 0
    ELSE LET k == CurveIndex(time_s, Ta)
         IN  IF k >= Len(DerivativeTable) THEN 0
             ELSE (DerivativeTable[k + 1] * 36000) \div Ta

\* BGActionBase.getTa(settings, whichTa); whichTa is the profile's list
getTa(e, whichTa) ==
    IF "Ta" \in DOMAIN e THEN e.Ta ELSE whichTa[ProfileGetBin(e.iov_0_utc) + 1]

\* BGActionBase.getIntegralBase(time_start, time_end, settings, whichTa)
getIntegralBase(e, time_start, time_end, Ta, magnitude) ==
    IF time_end < e.iov_0_utc THEN 0
    ELSE (InsulinActionCurve(time_end - e.iov_0_utc, Ta)
          - InsulinActionCurve(time_start - e.iov_0_utc, Ta)) * magnitude

\* BGActionBase.getBGEffectDerivPerHourBase(time_ut, settings, whichTa)
getBGEffectDerivPerHourBase(e, time_ut, Ta, magnitude) ==
    IF time_ut < e.iov_0_utc \/ time_ut > e.iov_1_utc THEN 0
    ELSE InsulinActionCurveDerivative(time_ut - e.iov_0_utc, Ta) * magnitude

\* datetime.timedelta(days=30).total_seconds()
ThirtyDays == 2592000

-----------------------------------------------------------------------------
(* src/Settings.py : TrueUserProfile *)

\* TrueUserProfile.__init__; the decay constants 2. and 4. hours in 1/36000 hour
TrueUserProfileInit ==
    [InsulinSensitivity |-> [b \in 1..nBins |-> 0],
     FoodSensitivity    |-> [b \in 1..nBins |-> 0],
     FoodTa             |-> [b \in 1..nBins |-> 72000],
     InsulinTa          |-> [b \in 1..nBins |-> 144000],
     LiverHourlyGlucose |-> [b \in 1..nBins |-> 0]]

\* TrueUserProfile.AddSensitivityFromArrays(h_insulin, h_ric); the quotient
\* InsulinSensitivity[i] / float(tmp_ric[i]) is exact for the arrays drawn here
AddSensitivityFromArrays(p, h_insulin, h_ric) ==
    LET sensitivity == SettingsArrayToList(h_insulin)
        tmp_ric == SettingsArrayToList(h_ric)
    IN  [p EXCEPT
            !.FoodSensitivity = [b \in 1..nBins |-> sensitivity[b] \div tmp_ric[b]],
            !.InsulinSensitivity = [b \in 1..nBins |-> -sensitivity[b]]]

\* the loop of AddHourlyGlucoseFromArrays from source bin i (0-based) on;
\* durations in whole hours: offset = int((duration / 2.) / 0.5) = duration
RECURSIVE HourlyGlucoseLoop(_, _, _, _, _)
HourlyGlucoseLoop(liver, tmp_basal, tmp_duration, sensitivity, i) ==
    IF i >= nBins THEN liver
    ELSE LET offset == tmp_duration[i + 1]
         IN  HourlyGlucoseLoop(
                 [liver EXCEPT ![((i + offset) % nBins) + 1] =
                      -tmp_basal[i + 1] * sensitivity[i + 1]],
                 tmp_basal, tmp_duration, sensitivity, i + 1)

\* sensitivity_set = (True in list(a != 0 for a in self.InsulinSensitivity))
SensitivitySet(p) == \E b \in 1..nBins : p.InsulinSensitivity[b] # 0

\* TrueUserProfile.AddHourlyGlucoseFromArrays(h_basal, h_duration)
AddHourlyGlucoseFromArrays(p, h_basal, h_duration) ==
    IF ~SensitivitySet(p) THEN p
    ELSE [p EXCEPT !.LiverHourlyGlucose =
             HourlyGlucoseLoop(p.LiverHourlyGlucose, SettingsArrayToList(h_basal),
                               SettingsArrayToList(h_duration), p.InsulinSensitivity, 0)]

-----------------------------------------------------------------------------
(* src/BGActionClasses.py : the effect events and their queries *)

\* the micro-boluses of SquareWaveBolus.__init__ from time_it on; the
\* duration in minutes, bolus_val = insulin * 0.1 / duration_hr
RECURSIVE SquareLoop(_, _, _, _, _)
SquareLoop(time_it, time_ut, duration_min, insulin, miniBoluses) ==
    IF ~(time_it < time_ut + 60 * duration_min) THEN miniBoluses
    ELSE SquareLoop(time_it + TimeStep, time_ut, duration_min, insulin,
             Append(miniBoluses, InsulinBolus(time_it, (insulin * 6) \div duration_min)))

\* SquareWaveBolus(time_ut, duration_hr, insulin).  The validity end is
\* time_ut + duration_hr + 6 h with duration_hr added as a number of seconds:
\* its whole part is kept, which decides every comparison with a whole second.
\* The doses drawn are multiples of the duration, so bolus_val is exact.
SquareWaveBolus(time_ut, duration_min, insulin) ==
    [kind |-> "SquareWaveBolus", iov_0_utc |-> time_ut,
     iov_1_utc |-> time_ut + (duration_min \div 60) + SixHours, affectsBG |-> TRUE,
     insulin |-> insulin, duration_min |-> duration_min,
     miniBoluses |-> SquareLoop(time_ut, time_ut, duration_min, insulin, <<>>)]

\* DualWaveBolus(time_ut, duration_hr, insulin_square, insulin_inst)
DualWaveBolus(time_ut, duration_min, insulin_square, insulin_inst) ==
    [kind |-> "DualWaveBolus", iov_0_utc |-> time_ut,
     iov_1_utc |-> time_ut + (duration_min \div 60) + SixHours, affectsBG |-> TRUE,
     insulin_square |-> insulin_square, insulin_inst |-> insulin_inst,
     duration_min |-> duration_min,
     square |-> SquareWaveBolus(time_ut, duration_min, insulin_square),
     inst |-> InsulinBolus(time_ut, insulin_inst)]

\* Food(iov_utc, food)
Food(iov_utc, food) ==
    [kind |-> "Food", iov_0_utc |-> iov_utc, iov_1_utc |-> iov_utc + SixHours,
     affectsBG |-> TRUE, food |-> food, original_value |-> food, fattyMeal |-> FALSE]

\* float('inf') as a validity end: later than every instant of the model
Infinity == 2000000000

\* LiverBasalGlucose(): binWidth_hr = 0.25, nBins = 96, smear_hr_pm = 1
LiverBasalGlucose ==
    [kind |-> "LiverBasalGlucose", iov_0_utc |-> 0, iov_1_utc |-> Infinity,
     affectsBG |-> TRUE]

\* ExerciseEffect.LoadContainers(containers), from position i on
RECURSIVE LoadContainers(_, _, _, _, _)
LoadContainers(iov_0_utc, iov_1_utc, conts, i, affectedEvents) ==
    IF i > Len(conts) THEN affectedEvents
    ELSE LET c == conts[i] IN
         IF c.iov_0_utc > iov_1_utc \/ c.iov_1_utc < iov_0_utc
            \/ ~(IsBasalInsulin(c) \/ IsBolus(c))
         THEN LoadContainers(iov_0_utc, iov_1_utc, conts, i + 1, affectedEvents)
         ELSE LoadContainers(iov_0_utc, iov_1_utc, conts, i + 1,
                             Append(affectedEvents, c))

\* ExerciseEffect(iov_0_utc, iov_1_utc, factor, containers); factor in tenths.
\* affectedEvents holds the events themselves: no operation of the code
\* changes an InsulinBolus or a BasalInsulin after its construction
ExerciseEffect(iov_0_utc, iov_1_utc, factor, conts) ==
    [kind |-> "ExerciseEffect", iov_0_utc |-> iov_0_utc, iov_1_utc |-> iov_1_utc,
     affectsBG |-> TRUE, factor |-> factor,
     affectedEvents |-> IF Len(conts) > 0
                        THEN LoadContainers(iov_0_utc, iov_1_utc, conts, 1, <<>>)
                        ELSE <<>>]

\* InsulinBolus.getMagnitudeOfBGEffect(settings)
BolusMagnitude(e, settings) ==
    settings.InsulinSensitivity[ProfileGetBin(e.iov_0_utc) + 1] * e.insulin

\* InsulinBolus.getIntegral(time_start, time_end, settings)
BolusIntegral(e, time_start, time_end, settings) ==
    getIntegralBase(e, time_start, time_end, getTa(e, settings.InsulinTa),
                    BolusMagnitude(e, settings))

\* InsulinBolus.getBGEffectDerivPerHour(time_ut, settings)
BolusDerivPerHour(e, time_ut, settings) ==
    getBGEffectDerivPerHourBase(e, time_ut, getTa(e, settings.InsulinTa),
                                BolusMagnitude(e, settings))

\* sum(c.getIntegral(time_start, time_end, settings) for c in boluses)
SumBolusIntegral(boluses, time_start, time_end, settings) ==
    SumSeq([i \in 1..Len(boluses) |->
               BolusIntegral(boluses[i], time_start, time_end, settings)])

\* sum(c.getBGEffectDerivPerHour(time_ut, settings) for c in boluses)
SumBolusDerivPerHour(boluses, time_ut, settings) ==
    SumSeq([i \in 1..Len(boluses) |-> BolusDerivPerHour(boluses[i], time_ut, settings)])

\* LiverBasalGlucose.getBin(time_ut), binWidth_hr = 0.25
LiverGetBin(time_ut) == (60 * tm_hour(time_ut) + tm_min(time_ut)) \div 15

\* LiverBasalGlucose.getSmearedList(settings): 96 quarter-hour rates, each the
\* mean of the 9 entries within +-1 h; held as the sum of the 9 (ninths)
getSmearedList(settings) ==
    LET tmp == [i \in 0..95 |-> settings.LiverHourlyGlucose[(i \div 2) + 1]]
    IN  [i \in 0..95 |-> SumSeq([j \in 1..9 |-> tmp[(i - 4 + (j - 1)) % 96]])]

\* f[lo] + ... + f[hi], added by halves
RECURSIVE SumOver(_, _, _)
SumOver(f, lo, hi) ==
    IF lo > hi THEN 0
    ELSE IF lo = hi THEN f[lo]
    ELSE SumOver(f, lo, (lo + hi) \div 2) + SumOver(f, ((lo + hi) \div 2) + 1, hi)

\* a loop test that stops at time_end, without the extra bin width
LoopHoldsWithoutMargin(k, time_start, time_end) == time_start + 900 * k <= time_end

\* a loop test that runs on for two bin widths past time_end
LoopHoldsWithTwoMargins(k, time_start, time_end) == time_start + 900 * k <= time_end + 1800

\* the test of the while loop of LiverBasalGlucose.getIntegral before pass k
\* (k = 0, 1, ...), when it_time = time_start + k * 900:
\* it_time <= time_end + timedelta(hours=binWidth_hr).total_seconds()
LoopHolds(k, time_start, time_end) == time_start + 900 * k <= time_end + 900

\* pass k of the loop: liver_bin = getBin(time_start) + k and the two edges
LiverPass(k, time_start, time_end) ==
    LET time_start_day == time_start - tm_sec(time_start) - 60 * tm_min(time_start)
                              - 3600 * tm_hour(time_start)
        liver_bin == LiverGetBin(time_start) + k
    IN  [liver_bin |-> liver_bin,
         low_edge |-> Max(time_start, time_start_day + liver_bin * 900),
         up_edge  |-> Min(time_end, time_start_day + (liver_bin + 1) * 900)]

\* pass k ends in the break: up_edge < low_edge
Breaks(k, time_start, time_end) ==
    LiverPass(k, time_start, time_end).up_edge < LiverPass(k, time_start, time_end).low_edge

\* the loop of getIntegral(time_start, time_end, settings), pass by pass.  Pass
\* k is made when the loop test holds before it and no earlier pass broke;
\* the passes are looked for among 0..last, and the test fails from
\* k = (time_end - time_start)/900 + 2 on.  sum is in (ninths of a rate
\* unit) x seconds, seconds adds up the lengths up_edge - low_edge, and
\* iterations counts the passes, the one that breaks included
LiverWalk(time_start, time_end, settings) ==
    LET fine == getSmearedList(settings)
        last == (Max(time_end - time_start, 0) \div 900) + 3
        firstBreak == IF \E k \in 0..last : Breaks(k, time_start, time_end)
                      THEN CHOOSE k \in 0..last :
                               /\ Breaks(k, time_start, time_end)
                               /\ \A j \in 0..(k - 1) : ~Breaks(j, time_start, time_end)
                      ELSE last + 1
        passes == {k \in 0..last : LoopHolds(k, time_start, time_end) /\ k <= firstBreak}
        seconds == [k \in 0..last |->
                       IF k \in passes /\ k # firstBreak
                       THEN LiverPass(k, time_start, time_end).up_edge
                            - LiverPass(k, time_start, time_end).low_edge
                       ELSE 0]
    IN  [sum |-> SumOver([k \in 0..last |->
                     seconds[k] * fine[LiverPass(k, time_start, time_end).liver_bin % 96]],
                     0, last),
         seconds |-> SumOver(seconds, 0, last),
         iterations |-> Cardinality(passes)]

\* LiverBasalGlucose.getIntegral(time_start, time_end, settings)
LiverIntegral(time_start, time_end, settings) ==
    LiverWalk(time_start, time_end, settings).sum

\* getIntegral of the events an ExerciseEffect records
InsulinIntegral(c, time_start, time_end, settings) ==
    IF IsBolus(c) THEN BolusIntegral(c, time_start, time_end, settings)
    ELSE SumBolusIntegral(c.basalBoluses, time_start, time_end, settings)

\* getBGEffectDerivPerHour of the events an ExerciseEffect records
InsulinDerivPerHour(c, time_ut, settings) ==
    IF IsBolus(c) THEN BolusDerivPerHour(c, time_ut, settings)
    ELSE SumBolusDerivPerHour(c.basalBoluses, time_ut, settings)

\* the integral of an exercise that scans the container at the time of the
\* query, not the list it recorded
ExerciseIntegralRescanning(e, time_start, time_end, settings) ==
    IF e.iov_0_utc > time_start \/ time_end > e.iov_1_utc THEN 0
    ELSE LET found == LoadContainers(e.iov_0_utc, e.iov_1_utc, containers, 1, <<>>)
         IN  e.factor * SumSeq([i \in 1..Len(found) |->
                 InsulinIntegral(found[i], time_start, time_end, settings)])

\* ExerciseEffect.getIntegral(time_start, time_end, settings)
ExerciseIntegral(e, time_start, time_end, settings) ==
    IF e.iov_0_utc > time_start \/ time_end > e.iov_1_utc THEN 0
    ELSE e.factor * SumSeq([i \in 1..Len(e.affectedEvents) |->
             InsulinIntegral(e.affectedEvents[i], time_start, time_end, settings)])

\* the classes that define getIntegral
HasIntegral(e) ==
    e.kind \in {"InsulinBolus", "Food", "LiverFattyGlucose", "SquareWaveBolus",
                "DualWaveBolus", "BasalInsulin", "LiverBasalGlucose", "ExerciseEffect"}

\* e.getIntegral(time_start, time_end, settings)
getIntegral(e, time_start, time_end, settings) ==
    CASE e.kind = "InsulinBolus" -> BolusIntegral(e, time_start, time_end, settings)
      [] e.kind = "Food" ->
            getIntegralBase(e, time_start, time_end, getTa(e, settings.FoodTa),
                settings.FoodSensitivity[ProfileGetBin(e.iov_0_utc) + 1] * e.food)
      [] e.kind = "LiverFattyGlucose" ->
            getIntegralBase(e, time_start, time_end, e.Ta, e.BGEffect)
      [] e.kind = "SquareWaveBolus" ->
            SumBolusIntegral(e.miniBoluses, time_start, time_end, settings)
      [] e.kind = "DualWaveBolus" ->
            SumBolusIntegral(e.square.miniBoluses, time_start, time_end, settings)
            + BolusIntegral(e.inst, time_start, time_end, settings)
      [] e.kind = "BasalInsulin" ->
            SumBolusIntegral(e.basalBoluses, time_start, time_end, settings)
      [] e.kind = "LiverBasalGlucose" -> LiverIntegral(time_start, time_end, settings)
      [] e.kind = "ExerciseEffect" ->
            ExerciseIntegral(e, time_start, time_end, settings)

\* the classes that define getBGEffectDerivPerHour
HasDerivPerHour(e) == HasIntegral(e)

\* e.getBGEffectDerivPerHour(time_ut, settings)
getBGEffectDerivPerHour(e, time_ut, settings) ==
    CASE e.kind = "InsulinBolus" -> BolusDerivPerHour(e, time_ut, settings)
      [] e.kind = "Food" ->
            getBGEffectDerivPerHourBase(e, time_ut, getTa(e, settings.FoodTa),
                settings.FoodSensitivity[ProfileGetBin(e.iov_0_utc) + 1] * e.food)
      [] e.kind = "LiverFattyGlucose" ->
            getBGEffectDerivPerHourBase(e, time_ut, e.Ta, e.BGEffect)
      [] e.kind = "SquareWaveBolus" ->
            SumBolusDerivPerHour(e.miniBoluses, time_ut, settings)
      [] e.kind = "DualWaveBolus" ->
            SumBolusDerivPerHour(e.square.miniBoluses, time_ut, settings)
            + BolusDerivPerHour(e.inst, time_ut, settings)
      [] e.kind = "BasalInsulin" ->
            SumBolusDerivPerHour(e.basalBoluses, time_ut, settings)
      [] e.kind = "LiverBasalGlucose" -> getSmearedList(settings)[LiverGetBin(time_ut)]
      [] e.kind = "ExerciseEffect" ->
            IF e.iov_0_utc > time_ut \/ time_ut > e.iov_1_utc THEN 0
            ELSE e.factor * SumSeq([i \in 1..Len(e.affectedEvents) |->
                     InsulinDerivPerHour(e.affectedEvents[i], time_ut, settings)])

\* the classes that define or inherit BGEffectRemaining: BGActionBase and its
\* subclasses, SquareWaveBolus, LiverBasalGlucose, BasalInsulin, ExerciseEffect
HasBGEffectRemaining(e) ==
    e.kind \in {"InsulinBolus", "Food", "LiverFattyGlucose", "SquareWaveBolus",
                "LiverBasalGlucose", "BasalInsulin", "ExerciseEffect"}

\* BGActionBase.BGEffectRemaining of a micro-bolus
BolusRemaining(e, time_ut, settings) ==
    BolusIntegral(e, time_ut, time_ut + ThirtyDays, settings)

\* e.BGEffectRemaining(time_ut, settings), for a class that has the method
BGEffectRemaining(e, time_ut, settings) ==
    CASE e.kind \in {"InsulinBolus", "Food", "LiverFattyGlucose"} ->
            getIntegral(e, time_ut, time_ut + ThirtyDays, settings)
      [] e.kind = "SquareWaveBolus" ->
            SumSeq([i \in 1..Len(e.miniBoluses) |->
                       BolusRemaining(e.miniBoluses[i], time_ut, settings)])
      [] e.kind \in {"LiverBasalGlucose", "BasalInsulin", "ExerciseEffect"} -> 0

\* the classes that define AddBGEffect
HasAddBGEffect(e) == e.kind \in {"Food", "LiverFattyGlucose"}

\* the magnitude of a Food (food) or of a LiverFattyGlucose (BGEffect)
Magnitude(e) == IF e.kind = "Food" THEN e.food ELSE e.BGEffect

\* an AddBGEffect that keeps the event as it is when the slice has no effect
AddBGEffectWithFallback(e, time_start, time_end, settings, added_bgeffect) ==
    LET bgeffect_in_slice == getIntegral(e, time_start, time_end, settings)
        scaled == IF bgeffect_in_slice = 0 THEN Magnitude(e)
                  ELSE Magnitude(e) + (Magnitude(e) * added_bgeffect) \div bgeffect_in_slice
    IN  [ok |-> TRUE,
         event |-> IF e.kind = "Food" THEN [e EXCEPT !.food = scaled]
                   ELSE [e EXCEPT !.BGEffect = scaled]]

\* Food.AddBGEffect and LiverFattyGlucose.AddBGEffect(time_start, time_end,
\* settings, added_bgeffect): the event afterwards, or the ZeroDivisionError of
\* factor = (bgeffect_in_slice + added_bgeffect) / float(bgeffect_in_slice).
\* magnitude * factor is computed as magnitude + magnitude * added / slice,
\* rounded to the unit of the magnitude
AddBGEffect(e, time_start, time_end, settings, added_bgeffect) ==
    LET bgeffect_in_slice == getIntegral(e, time_start, time_end, settings)
        scaled == Magnitude(e) + (Magnitude(e) * added_bgeffect) \div bgeffect_in_slice
    IN  IF bgeffect_in_slice = 0
        THEN [ok |-> FALSE, error |-> "ZeroDivisionError", event |-> e]
        ELSE [ok |-> TRUE,
              event |-> IF e.kind = "Food" THEN [e EXCEPT !.food = scaled]
                        ELSE [e EXCEPT !.BGEffect = scaled]]

\* what a call returns: a value, or the AttributeError of a missing method
Returned(value) == [ok |-> TRUE, value |-> value]
Raised(error) == [ok |-> FALSE, error |-> error]

-----------------------------------------------------------------------------
(* The effect events and their queries as a state machine *)

\* at most this many events are appended one by one; a BasalInsulin brings
\* its LiverFattyGlucose events with it
MaxEffectEvents == 2

\* the settings arrays a profile is built from: sensitivity 4 then 5,
\* carbohydrate ratio 2 then 5, basal rate 10 then 20, duration 4 hours
ProfileArrays ==
    [h_insulin  |-> <<[time_seconds |-> 0, value |-> 4],
                      [time_seconds |-> 45000, value |-> 5]>>,
     h_ric      |-> <<[time_seconds |-> 0, value |-> 2],
                      [time_seconds |-> 45000, value |-> 5]>>,
     h_basal    |-> <<[time_seconds |-> 0, value |-> 10],
                      [time_seconds |-> 45000, value |-> 20]>>,
     h_duration |-> <<[time_seconds |-> 0, value |-> 4]>>]

\* a profile after AddSensitivityFromArrays and AddHourlyGlucoseFromArrays
BuiltProfile ==
    AddHourlyGlucoseFromArrays(
        AddSensitivityFromArrays(TrueUserProfileInit,
                                 ProfileArrays.h_insulin, ProfileArrays.h_ric),
        ProfileArrays.h_basal, ProfileArrays.h_duration)

\* doses in thousandths of a unit, grams of food, square-wave durations in
\* minutes, exercise factors in tenths
Doses == {3000}
Grams == {30}
SquareMinutes == {30}
ExerciseFactors == {5}

\* exercise intervals in minutes after noon: one that overlaps the events
\* given at noon and one that ends before them
ExerciseSpans == {<<30, 90>>, <<-120, -60>>}

\* the instants of the queries, in minutes after noon
QueryMinutes == {-60, 0, 45, 60, 120}
QueryTimes == {Noon + Minutes(m) : m \in QueryMinutes}

InitEffect ==
    /\ settings_24h = <<>>
    /\ lookup = Idle
    /\ containers = <<>>
    /\ basal = Idle
    /\ profile = BuiltProfile
    /\ query = Idle

\* containers.append(event), while the container is being filled
AppendEvent(event) ==
    /\ query.op = "none"
    /\ Len(containers) < MaxEffectEvents
    /\ containers' = Append(containers, event)
    /\ UNCHANGED <<settings_24h, lookup, basal, profile, query>>

AddInsulinBolus == \E insulin \in Doses : AppendEvent(InsulinBolus(Noon, insulin))

AddSquareWaveBolus ==
    \E duration_min \in SquareMinutes, insulin \in Doses :
        AppendEvent(SquareWaveBolus(Noon, duration_min, insulin))

AddDualWaveBolus ==
    \E duration_min \in SquareMinutes, insulin \in Doses :
        AppendEvent(DualWaveBolus(Noon, duration_min, insulin, insulin))

AddFood == \E food \in Grams : AppendEvent(Food(Noon, food))

AddLiverBasalGlucose == AppendEvent(LiverBasalGlucose)

AddRaisedTempBasal == AppendEvent(TempBasal(Noon, Noon + Minutes(12), 150))

\* containers.append(BasalInsulin(iov_0_utc, iov_1_utc, basal_rates,
\* settings.InsulinSensitivity, containers))
AddBasalInsulin ==
    \E basal_rates \in BasalRateArrays :
        /\ query.op = "none"
        /\ Len(containers) < MaxEffectEvents
        /\ LET made == BasalInsulin(Noon, Noon + Minutes(18), basal_rates,
                           [type |-> "list", data |-> profile.InsulinSensitivity],
                           containers)
           IN  containers' = Append(made.containers, made.event)
        /\ UNCHANGED <<settings_24h, lookup, basal, profile, query>>

\* containers.append(ExerciseEffect(iov_0_utc, iov_1_utc, factor, containers))
AddExerciseEffect ==
    \E span \in ExerciseSpans, factor \in ExerciseFactors :
        AppendEvent(ExerciseEffect(Noon + Minutes(span[1]), Noon + Minutes(span[2]),
                                   factor, containers))

\* containers[index].getIntegral(time_start, time_end, settings)
DoGetIntegral ==
    \E index \in 1..Len(containers), time_start \in QueryTimes, time_end \in QueryTimes :
        /\ time_start <= time_end
        /\ query' = [op |-> "getIntegral", index |-> index,
                     time_start |-> time_start, time_end |-> time_end,
                     result |-> IF HasIntegral(containers[index])
                                THEN Returned(getIntegral(containers[index],
                                         time_start, time_end, profile))
                                ELSE Raised(AttributeError)]
        /\ UNCHANGED <<settings_24h, lookup, containers, basal, profile>>

\* containers[index].getBGEffectDerivPerHour(time_ut, settings)
DoGetBGEffectDerivPerHour ==
    \E index \in 1..Len(containers), time_ut \in QueryTimes :
        /\ query' = [op |-> "getBGEffectDerivPerHour", index |-> index,
                     time_ut |-> time_ut,
                     result |-> IF HasDerivPerHour(containers[index])
                                THEN Returned(getBGEffectDerivPerHour(
                                         containers[index], time_ut, profile))
                                ELSE Raised(AttributeError)]
        /\ UNCHANGED <<settings_24h, lookup, containers, basal, profile>>

\* containers[index].BGEffectRemaining(time_ut, settings)
DoBGEffectRemaining ==
    \E index \in 1..Len(containers), time_ut \in QueryTimes :
        /\ query' = [op |-> "BGEffectRemaining", index |-> index,
                     time_ut |-> time_ut,
                     result |-> IF HasBGEffectRemaining(containers[index])
                                THEN Returned(BGEffectRemaining(
                                         containers[index], time_ut, profile))
                                ELSE Raised(AttributeError)]
        /\ UNCHANGED <<settings_24h, lookup, containers, basal, profile>>

\* the windows of a rescaling, in minutes after noon, and the effects added
RescaleWindows == {<<-60, -30>>, <<-60, 0>>, <<0, 60>>}
AddedEffects == {10000}

\* containers[index].AddBGEffect(time_start, time_end, settings, added_bgeffect)
\* on a Food or a LiverFattyGlucose that still has its original magnitude
DoAddBGEffect ==
    \E index \in 1..Len(containers), window \in RescaleWindows,
       added_bgeffect \in AddedEffects :
        LET e == containers[index]
            time_start == Noon + Minutes(window[1])
            time_end == Noon + Minutes(window[2])
        IN  /\ HasAddBGEffect(e)
            /\ Magnitude(e) = e.original_value
            /\ LET done == AddBGEffect(e, time_start, time_end, profile, added_bgeffect)
               IN  /\ containers' = [containers EXCEPT ![index] = done.event]
                   /\ query' = [op |-> "AddBGEffect", index |-> index,
                                time_start |-> time_start, time_end |-> time_end,
                                added_bgeffect |-> added_bgeffect, before |-> e,
                                bgeffect_in_slice |->
                                    getIntegral(e, time_start, time_end, profile),
                                result |-> IF done.ok THEN Returned("None")
                                           ELSE Raised(done.error)]
            /\ UNCHANGED <<settings_24h, lookup, basal, profile>>

NextEffect ==
    \/ AddInsulinBolus
    \/ AddSquareWaveBolus
    \/ AddDualWaveBolus
    \/ AddFood
    \/ AddLiverBasalGlucose
    \/ AddRaisedTempBasal
    \/ AddBasalInsulin
    \/ AddExerciseEffect
    \/ DoGetIntegral
    \/ DoGetBGEffectDerivPerHour
    \/ DoBGEffectRemaining
    \/ DoAddBGEffect

SpecEffect == InitEffect /\ [][NextEffect]_vars

-----------------------------------------------------------------------------
(* Properties of the effect queries *)

\* the event the last query was made on
Queried == containers[query.index]

\* C5: for every event that has an integral query and every t0 <= t1 <= t2,
\* integral(t0, t2) = integral(t0, t1) + integral(t1, t2), also when the
\* window starts before the event's validity or ends after it
C5_IntegralIsAdditive ==
    (query.op = "getIntegral" /\ query.result.ok) =>
        \A t1 \in QueryTimes :
            (query.time_start <= t1 /\ t1 <= query.time_end) =>
                query.result.value =
                    getIntegral(Queried, query.time_start, t1, profile)
                    + getIntegral(Queried, t1, query.time_end, profile)

\* factor x the recorded events' integrals over the part of the window that
\* lies in the exercise's validity interval; 0 if no part does
ClippedExerciseIntegral(e, time_start, time_end, settings) ==
    IF time_end < e.iov_0_utc \/ time_start > e.iov_1_utc THEN 0
    ELSE e.factor * SumSeq([i \in 1..Len(e.affectedEvents) |->
             InsulinIntegral(e.affectedEvents[i], Max(time_start, e.iov_0_utc),
                             Min(time_end, e.iov_1_utc), settings)])

\* C6: the integral of an ExerciseEffect over a window is 0 when the window
\* lies wholly outside the exercise's validity interval, and otherwise factor
\* x the sum of the recorded events' integrals over the intersection of the
\* window with that interval
C6_ExerciseIntegralIsClipped ==
    (query.op = "getIntegral" /\ Queried.kind = "ExerciseEffect") =>
        /\ query.result.ok
        /\ query.result.value =
               ClippedExerciseIntegral(Queried, query.time_start, query.time_end, profile)

\* the insulin-bearing kinds of event
InsulinBearing(c) ==
    c.kind \in {"InsulinBolus", "SquareWaveBolus", "DualWaveBolus", "BasalInsulin"}

\* the insulin-bearing events of conts, from position i on, whose validity
\* interval overlaps that of e, in the order of conts
RECURSIVE OverlappingInsulin(_, _, _)
OverlappingInsulin(e, conts, i) ==
    IF i > Len(conts) THEN <<>>
    ELSE LET c == conts[i]
             rest == OverlappingInsulin(e, conts, i + 1)
         IN  IF InsulinBearing(c) /\ c.iov_0_utc <= e.iov_1_utc
                                  /\ c.iov_1_utc >= e.iov_0_utc
             THEN <<c>> \o rest ELSE rest

\* C7: an ExerciseEffect constructed over a container records exactly the
\* InsulinBolus, SquareWaveBolus, DualWaveBolus and BasalInsulin events of the
\* container whose validity interval overlaps its own, in container order
C7_ExerciseRecordsOverlappingInsulin ==
    \A i \in 1..Len(containers) :
        containers[i].kind = "ExerciseEffect" =>
            containers[i].affectedEvents =
                OverlappingInsulin(containers[i], SubSeq(containers, 1, i - 1), 1)

\* the constituents of a SquareWaveBolus or a DualWaveBolus
Constituents(e) ==
    IF e.kind = "SquareWaveBolus" THEN e.miniBoluses ELSE <<e.square, e.inst>>

\* the sum over the constituents of the query last made
ConstituentSum(e) ==
    SumSeq([i \in 1..Len(Constituents(e)) |->
        CASE query.op = "getIntegral" ->
                 getIntegral(Constituents(e)[i], query.time_start, query.time_end, profile)
          [] query.op = "getBGEffectDerivPerHour" ->
                 getBGEffectDerivPerHour(Constituents(e)[i], query.time_ut, profile)
          [] query.op = "BGEffectRemaining" ->
                 BGEffectRemaining(Constituents(e)[i], query.time_ut, profile)])

\* C8: each of getIntegral, getBGEffectDerivPerHour and BGEffectRemaining is
\* available on a SquareWaveBolus and on a DualWaveBolus and returns the sum
\* of the same query over the constituents
C8_AggregateQueriesSumConstituents ==
    (query.op # "none" /\ Queried.kind \in {"SquareWaveBolus", "DualWaveBolus"}) =>
        /\ query.result.ok
        /\ query.result.value = ConstituentSum(Queried)

\* seq is the beginning of longer
IsPrefix(seq, longer) ==
    Len(seq) <= Len(longer) /\ SubSeq(longer, 1, Len(seq)) = seq

\* what a step added at the end of the container
Suffix == SubSeq(containers', Len(containers) + 1, Len(containers'))

Answers(e) ==
    [integral |-> [w \in {w \in QueryTimes \X QueryTimes : w[1] <= w[2]} |->
                      getIntegral(e, w[1], w[2], profile)],
     deriv |-> [t \in QueryTimes |-> getBGEffectDerivPerHour(e, t, profile)],
     remaining |-> [t \in QueryTimes |-> BGEffectRemaining(e, t, profile)]]

C16_ZeroSliceRaisesAndKeepsTheEvent ==
    (query.op = "AddBGEffect" /\ query.bgeffect_in_slice = 0) =>
        /\ query.result = Raised("ZeroDivisionError")
        /\ containers[query.index] = query.before
        /\ Magnitude(Queried) = Magnitude(query.before)
        /\ Queried.original_value = query.before.original_value

\* a rescaling over a window that ends before the event's validity raised
C16_Witness ==
    /\ query.op = "AddBGEffect"
    /\ query.time_end < Queried.iov_0_utc
    /\ query.bgeffect_in_slice = 0
    /\ ~query.result.ok
    /\ Magnitude(Queried) # 0

-----------------------------------------------------------------------------
(* BGEventBase.AffectsBG over the events of every class *)

\* Annotation(iov_0_utc, iov_1_utc, annotation): no affectsBG attribute is set;
\* the text is taken as already stripped
Annotation(iov_0_utc, iov_1_utc, annotation) ==
    [kind |-> "Annotation", iov_0_utc |-> iov_0_utc, iov_1_utc |-> iov_1_utc,
     annotation |-> annotation]

\* BGMeasurement(iov_0_utc, iov_1_utc, const_BG)
BGMeasurement(iov_0_utc, iov_1_utc, const_BG) ==
    [kind |-> "BGMeasurement", iov_0_utc |-> iov_0_utc, iov_1_utc |-> iov_1_utc,
     affectsBG |-> FALSE, const_BG |-> const_BG, firstBG |-> FALSE]

\* an AffectsBG that answers False for an event without the attribute
AffectsBGWithDefault(e) ==
    Returned(IF "affectsBG" \in DOMAIN e THEN e.affectsBG ELSE FALSE)

\* BGEventBase.AffectsBG(): the attribute, or AttributeError when the event
\* has none
AffectsBG(e) ==
    IF "affectsBG" \in DOMAIN e THEN Returned(e.affectsBG) ELSE Raised(AttributeError)

AddAnnotation == AppendEvent(Annotation(Noon, Noon + Minutes(12), "note"))

AddBGMeasurement == AppendEvent(BGMeasurement(Noon, Noon + Minutes(12), 175))

AddNoonSuspend == AppendEvent(Suspend(Noon, Noon + Minutes(12)))

\* containers[index].AffectsBG()
DoAffectsBG ==
    \E index \in 1..Len(containers) :
        /\ query' = [op |-> "AffectsBG", index |-> index,
                     result |-> AffectsBG(containers[index])]
        /\ UNCHANGED <<settings_24h, lookup, containers, basal, profile>>

NextFlags ==
    \/ AddAnnotation
    \/ AddBGMeasurement
    \/ AddNoonSuspend
    \/ AddInsulinBolus
    \/ AddSquareWaveBolus
    \/ AddDualWaveBolus
    \/ AddFood
    \/ AddLiverBasalGlucose
    \/ AddRaisedTempBasal
    \/ AddBasalInsulin
    \/ AddExerciseEffect
    \/ DoAffectsBG

SpecFlags == InitEffect /\ [][NextFlags]_vars

\* C17: AffectsBG() on an Annotation, whose class sets no affectsBG, raises
\* AttributeError and returns no default; on an event of any other class it
\* returns the flag the class sets: False for BGMeasurement, TempBasal and
\* Suspend, True for every class with an effect
C17_AffectsBGIsTheFlagOrAnError ==
    query.op = "AffectsBG" =>
        IF Queried.kind = "Annotation"
        THEN query.result = Raised(AttributeError)
        ELSE query.result =
                 Returned(Queried.kind \notin {"BGMeasurement", "TempBasal", "Suspend"})

\* AffectsBG() was called on an Annotation, and raised
C17_Witness ==
    /\ query.op = "AffectsBG"
    /\ Queried.kind = "Annotation"
    /\ ~query.result.ok

-----------------------------------------------------------------------------
(* src/Settings.py : the operations of a TrueUserProfile as a state machine *)

\* TrueUserProfile.getBinFromHourOfDay(time_hr) = int((time_hr % 24) / 0.5),
\* the hour of day given in minutes
getBinFromHourOfDay(time_min) == (time_min % 1440) \div 30

\* TrueUserProfile.setFoodSensitivityHrMidnight(time_hr, val)
setFoodSensitivityHrMidnight(p, time_min, val) ==
    [p EXCEPT !.FoodSensitivity[getBinFromHourOfDay(time_min) + 1] = val]

\* TrueUserProfile.SetInsulinSensitivity(time_hr, val)
SetInsulinSensitivity(p, time_min, val) ==
    [p EXCEPT !.InsulinSensitivity[getBinFromHourOfDay(time_min) + 1] = val]

\* TrueUserProfile.setInsulinTa(val)
setInsulinTa(p, val) == [p EXCEPT !.InsulinTa = [b \in 1..nBins |-> val]]

\* TrueUserProfile.setFoodTa(val)
setFoodTa(p, val) == [p EXCEPT !.FoodTa = [b \in 1..nBins |-> val]]

\* TrueUserProfile.AddDurationFromArray(h_duration); the array in hours, the
\* decay constants in 1/36000 hour
AddDurationFromArray(p, h_duration) ==
    LET hours == SettingsArrayToList(h_duration)
    IN  [p EXCEPT !.InsulinTa = [b \in 1..nBins |-> 36000 * hours[b]]]

\* the settings arrays the derivations are made from
SensitivityArrays ==
    {<<[time_seconds |-> 0, value |-> 4], [time_seconds |-> 45000, value |-> 5]>>,
     <<[time_seconds |-> 0, value |-> 8], [time_seconds |-> 45000, value |-> 10]>>}

\* insulin:carbohydrate ratios that divide the sensitivities exactly
RatioArrays ==
    {<<[time_seconds |-> 0, value |-> 2], [time_seconds |-> 45000, value |-> 5]>>,
     <<[time_seconds |-> 0, value |-> 1]>>}

DurationArrays == {<<[time_seconds |-> 0, value |-> 4]>>}

\* hours of day the setters are called with, in minutes: 12:30, and 36:30
\* which wraps to it
SetterMinutes == {750, 2190}

\* instants the lookups by absolute time are made at: 12:00, 12:29, 12:30,
\* 12:59 and 23:45 of day 1
LookupTimes == {Noon + Minutes(m) : m \in {0, 29, 30, 59, 705}}

\* hours of day the lookups by time of day are made at, in minutes
LookupMinutes == {0, 29, 30, 749, 750, 1439, 1440, 1470}

\* which derived lists have been derived so far
InitProfile ==
    /\ settings_24h = <<>>
    /\ lookup = [op |-> "none", FoodDerived |-> FALSE, LiverDerived |-> FALSE]
    /\ containers = <<>>
    /\ basal = Idle
    /\ profile = TrueUserProfileInit
    /\ query = Idle

\* a call that changes the profile and returns nothing
ProfileCall(op, p) ==
    /\ profile' = p
    /\ query' = [op |-> op]
    /\ UNCHANGED <<settings_24h, containers, basal>>

DoAddSensitivityFromArrays ==
    \E h_insulin \in SensitivityArrays, h_ric \in RatioArrays :
        /\ ProfileCall("AddSensitivityFromArrays",
                       AddSensitivityFromArrays(profile, h_insulin, h_ric))
        /\ lookup' = [lookup EXCEPT !.FoodDerived = TRUE]

DoAddHourlyGlucoseFromArrays ==
    \E h_basal \in BasalRateArrays, h_duration \in DurationArrays :
        /\ ProfileCall("AddHourlyGlucoseFromArrays",
                       AddHourlyGlucoseFromArrays(profile, h_basal, h_duration))
        /\ lookup' = [lookup EXCEPT !.LiverDerived =
                         @ \/ \E b \in 1..nBins : profile.InsulinSensitivity[b] # 0]

DoSetFoodSensitivityHrMidnight ==
    \E time_min \in SetterMinutes :
        /\ ProfileCall("setFoodSensitivityHrMidnight",
                       setFoodSensitivityHrMidnight(profile, time_min, 3))
        /\ UNCHANGED lookup

DoSetInsulinSensitivity ==
    \E time_min \in SetterMinutes :
        /\ ProfileCall("SetInsulinSensitivity",
                       SetInsulinSensitivity(profile, time_min, -6))
        /\ UNCHANGED lookup

DoSetInsulinTa ==
    /\ ProfileCall("setInsulinTa", setInsulinTa(profile, 108000))
    /\ UNCHANGED lookup

DoSetFoodTa ==
    /\ ProfileCall("setFoodTa", setFoodTa(profile, 108000))
    /\ UNCHANGED lookup

DoAddDurationFromArray ==
    \E h_duration \in DurationArrays :
        /\ ProfileCall("AddDurationFromArray", AddDurationFromArray(profile, h_duration))
        /\ UNCHANGED lookup

\* the five lookups by absolute time: each reads its list at getBin(time_ut)
DoGetAtTime ==
    \E time_ut \in LookupTimes :
        /\ query' = [op |-> "getBin", time_ut |-> time_ut,
                     bin |-> ProfileGetBin(time_ut),
                     InsulinSensitivity |->
                         profile.InsulinSensitivity[ProfileGetBin(time_ut) + 1],
                     FoodSensitivity |->
                         profile.FoodSensitivity[ProfileGetBin(time_ut) + 1],
                     InsulinTa |-> profile.InsulinTa[ProfileGetBin(time_ut) + 1],
                     FoodTa |-> profile.FoodTa[ProfileGetBin(time_ut) + 1],
                     LiverHourlyGlucose |->
                         profile.LiverHourlyGlucose[ProfileGetBin(time_ut) + 1]]
        /\ UNCHANGED <<settings_24h, lookup, containers, basal, profile>>

\* the lookups by time of day: each reads its list at getBinFromHourOfDay
DoGetAtHourOfDay ==
    \E time_min \in LookupMinutes :
        /\ query' = [op |-> "getBinFromHourOfDay", time_min |-> time_min,
                     bin |-> getBinFromHourOfDay(time_min),
                     InsulinSensitivity |->
                         profile.InsulinSensitivity[getBinFromHourOfDay(time_min) + 1]]
        /\ UNCHANGED <<settings_24h, lookup, containers, basal, profile>>

NextProfile ==
    \/ DoAddSensitivityFromArrays
    \/ DoAddHourlyGlucoseFromArrays
    \/ DoSetFoodSensitivityHrMidnight
    \/ DoSetInsulinSensitivity
    \/ DoSetInsulinTa
    \/ DoSetFoodTa
    \/ DoAddDurationFromArray
    \/ DoGetAtTime
    \/ DoGetAtHourOfDay

SpecProfile == InitProfile /\ [][NextProfile]_vars

\* C12: once FoodSensitivity and LiverHourlyGlucose have been derived, no
\* operation of the profile other than a derivation from source arrays
\* changes an entry of either list
C12_DerivedListsOnlyRederived ==
    [][(lookup.FoodDerived /\ lookup.LiverDerived
        /\ query'.op \notin {"AddSensitivityFromArrays", "AddHourlyGlucoseFromArrays"})
       => /\ profile'.FoodSensitivity = profile.FoodSensitivity
          /\ profile'.LiverHourlyGlucose = profile.LiverHourlyGlucose]_vars

\* C13: a lookup by absolute time at local time H:M resolves to bin
\* 2H + (1 if M >= 30 else 0) of the 48, the bin of the lookup by time of day
\* at hour H + M/60 and of BasalInsulin's getBin; and a lookup by time of day
\* resolves to the same bin 24 hours later
C13_LookupsResolveToTheSameBin ==
    /\ query.op = "getBin" =>
          /\ query.bin \in 0..(nBins - 1)
          /\ query.bin = 2 * tm_hour(query.time_ut)
                         + (IF tm_min(query.time_ut) >= 30 THEN 1 ELSE 0)
          /\ query.bin = getBinFromHourOfDay(60 * tm_hour(query.time_ut)
                                             + tm_min(query.time_ut))
          /\ query.bin = BasalGetBin(query.time_ut)
    /\ query.op = "getBinFromHourOfDay" =>
          /\ query.bin \in 0..(nBins - 1)
          /\ query.bin = getBinFromHourOfDay(query.time_min + 1440)

-----------------------------------------------------------------------------
(* The stepped computations, each run on inputs drawn from bounded sets *)

\* the loop of ExerciseEffect.getMagnitudeOfBGEffect from time_step on.  Each
\* recorded event adds getBGEffectDerivPerHourTimesInterval(time_step, 0.1),
\* its rate per hour x 0.1: acc.mag holds the sum in tenths
RECURSIVE MagnitudeLoop(_, _, _, _)
MagnitudeLoop(e, time_step, settings, acc) ==
    IF ~(time_step < e.iov_1_utc) THEN acc
    ELSE MagnitudeLoop(e, time_step + TimeStep, settings,
             [mag |-> acc.mag + SumSeq([i \in 1..Len(e.affectedEvents) |->
                          InsulinDerivPerHour(e.affectedEvents[i], time_step, settings)]),
              iterations |-> acc.iterations + 1])

\* ExerciseEffect.getMagnitudeOfBGEffect(settings): mag * self.factor, and the
\* number of passes through the loop
getMagnitudeOfBGEffect(e, settings) ==
    LET done == MagnitudeLoop(e, e.iov_0_utc, settings, [mag |-> 0, iterations |-> 0])
    IN  [value |-> done.mag * e.factor, iterations |-> done.iterations]

\* instants of the liver integrals, in seconds after 00:00 of day 1: 13:20:00,
\* 13:30:00, 13:37:30, 14:00:00, 14:44:59, 15:31:00, 23:50:00, and of day 2
\* 00:10:00, 01:30:00, 02:59:59, and 01:15:00 of day 3.  The smeared rate
\* changes between 13:30 and 15:30 and between 01:00 and 03:00
LiverSeconds == {48000, 48600, 49050, 50400, 53099, 55860, 85800,
                 87000, 91800, 97199, 177300}
LiverTimes == {SecondsPerDay + o : o \in LiverSeconds}

\* durations of the square waves, in minutes: whole multiples of the 6-minute
\* step and others
SquareDurations == {1, 6, 10, 15, 30, 45, 60}

\* validity intervals of the BasalInsulin events, in minutes after noon
SteppedBasalSpans == {<<0, 18>>, <<15, 18>>, <<59, 60>>, <<59, 125>>, <<30, 30>>}

\* validity intervals of the exercises, in minutes after noon
SteppedExerciseSpans == {<<30, 90>>, <<30, 31>>, <<30, 73>>, <<45, 45>>}

\* LiverBasalGlucose().getIntegral(time_start, time_end, settings)
StepLiverIntegral ==
    \E time_start \in LiverTimes, time_end \in LiverTimes :
        /\ query' = [op |-> "LiverBasalGlucose.getIntegral",
                     time_start |-> time_start, time_end |-> time_end,
                     walk |-> LiverWalk(time_start, time_end, profile)]
        /\ UNCHANGED <<settings_24h, lookup, containers, basal, profile>>

\* SquareWaveBolus(time_ut, duration_hr, insulin)
StepSquareWaveBolus ==
    \E duration_min \in SquareDurations, insulin \in Doses :
        /\ query' = [op |-> "SquareWaveBolus", time_ut |-> Noon,
                     duration_min |-> duration_min, insulin |-> insulin,
                     event |-> SquareWaveBolus(Noon, duration_min, insulin)]
        /\ UNCHANGED <<settings_24h, lookup, containers, basal, profile>>

\* BasalInsulin(iov_0_utc, iov_1_utc, basal_rates, sensitivities, [])
StepBasalInsulin ==
    \E span \in SteppedBasalSpans, basal_rates \in BasalRateArrays :
        /\ query' = [op |-> "BasalInsulin",
                     event |-> BasalInsulin(Noon + Minutes(span[1]),
                                   Noon + Minutes(span[2]), basal_rates,
                                   [type |-> "list", data |-> profile.InsulinSensitivity],
                                   <<>>).event]
        /\ UNCHANGED <<settings_24h, lookup, containers, basal, profile>>

\* ExerciseEffect(iov_0_utc, iov_1_utc, factor, [InsulinBolus(noon, insulin)])
\* .getMagnitudeOfBGEffect(settings)
StepGetMagnitudeOfBGEffect ==
    \E span \in SteppedExerciseSpans, factor \in ExerciseFactors, insulin \in Doses :
        LET e == ExerciseEffect(Noon + Minutes(span[1]), Noon + Minutes(span[2]),
                                factor, <<InsulinBolus(Noon, insulin)>>)
        IN  /\ query' = [op |-> "getMagnitudeOfBGEffect", event |-> e,
                         result |-> getMagnitudeOfBGEffect(e, profile)]
            /\ UNCHANGED <<settings_24h, lookup, containers, basal, profile>>

NextSteps ==
    \/ StepLiverIntegral
    \/ StepSquareWaveBolus
    \/ StepBasalInsulin
    \/ StepGetMagnitudeOfBGEffect

SpecSteps == InitEffect /\ [][NextSteps]_vars

\* The 15-minute bins are numbered from 00:00 of day 0: bin b is bin b mod 96
\* of its day, and the bins that meet [t0, t1] are t0 \div 900 .. t1 \div 900.

\* the length in seconds of the part of bin b inside [t0, t1]
BinOverlap(b, t0, t1) == Max(0, Min(t1, (b + 1) * 900) - Max(t0, b * 900))

\* sum over the bins first..last of smeared rate x overlap with [t0, t1]
BinSum(first, last, t0, t1, fine) ==
    SumOver([b \in first..last |-> fine[b % 96] * BinOverlap(b, t0, t1)], first, last)

\* C18: for t0 <= t1 the integral of LiverBasalGlucose over [t0, t1] is the
\* sum, over every 15-minute bin that meets [t0, t1], of the smeared rate of
\* the bin's time of day x the length of the bin's part inside [t0, t1]; the
\* lengths the loop sums add up to t1 - t0
C18_LiverIntegralSumsClippedBins ==
    (query.op = "LiverBasalGlucose.getIntegral" /\ query.time_start <= query.time_end) =>
        /\ query.walk.sum = BinSum(query.time_start \div 900, query.time_end \div 900,
                                   query.time_start, query.time_end,
                                   getSmearedList(profile))
        /\ query.walk.seconds = query.time_end - query.time_start

\* an integral from 23:50 of day 1 to 01:15 of day 3, over two midnights and
\* bins of differing rates, with both ends inside a bin
C18_Witness ==
    /\ query.op = "LiverBasalGlucose.getIntegral"
    /\ query.time_start = SecondsPerDay + 85800
    /\ query.time_end = SecondsPerDay + 177300
    /\ query.walk.sum > 0
    /\ \E a, b \in 0..95 : getSmearedList(profile)[a] # getSmearedList(profile)[b]

\* the number of passes of the stepped computation the query ran, and the
\* length in seconds of the window it ran over
StepIterations ==
    CASE query.op = "LiverBasalGlucose.getIntegral" -> query.walk.iterations
      [] query.op = "SquareWaveBolus" -> Len(query.event.miniBoluses)
      [] query.op = "BasalInsulin" -> Len(query.event.basalBoluses)
      [] query.op = "getMagnitudeOfBGEffect" -> query.result.iterations
      [] OTHER -> 0
StepWindow ==
    CASE query.op = "LiverBasalGlucose.getIntegral" -> query.time_end - query.time_start
      [] query.op = "SquareWaveBolus" -> 60 * query.duration_min
      [] query.op = "BasalInsulin" -> query.event.iov_1_utc - query.event.iov_0_utc
      [] query.op = "getMagnitudeOfBGEffect" -> query.event.iov_1_utc - query.event.iov_0_utc
      [] OTHER -> 0

\* C19 as stated: the liver integral over any t0, t1, also with t1 < t0, makes
\* at most (t1 - t0)/15min + 2 passes, and the construction of a BasalInsulin,
\* the construction of a SquareWaveBolus and getMagnitudeOfBGEffect make at
\* most (window length)/6min + 11 passes
C19_IterationsWithinStatedBound ==
    /\ query.op = "LiverBasalGlucose.getIntegral" =>
           900 * (StepIterations - 2) <= StepWindow
    /\ query.op \in {"SquareWaveBolus", "BasalInsulin", "getMagnitudeOfBGEffect"} =>
           360 * (StepIterations - 11) <= StepWindow

\* C19, amended: the liver integral makes no pass at all or at most
\* (t1 - t0)/15min + 2 passes, that is at most max(0, (t1 - t0)/15min + 2);
\* the other three make at most (window length)/6min + 11 passes over a
\* window of length >= 0
C19_IterationsWithinBound ==
    /\ query.op = "LiverBasalGlucose.getIntegral" =>
           \/ StepIterations = 0
           \/ 900 * (StepIterations - 2) <= StepWindow
    /\ (query.op \in {"SquareWaveBolus", "BasalInsulin", "getMagnitudeOfBGEffect"}
          /\ StepWindow >= 0) =>
           360 * (StepIterations - 11) <= StepWindow

\* a liver integral over more than a day whose passes number exactly
\* (t1 - t0)/15min + 2
C19_Witness ==
    /\ query.op = "LiverBasalGlucose.getIntegral"
    /\ query.time_end - query.time_start > SecondsPerDay
    /\ 900 * (query.walk.iterations - 2) = query.time_end - query.time_start

\* C20: a SquareWaveBolus of dose D and duration d holds one micro-bolus at
\* start + k x 6 min for every k >= 0 with k x 6 min < d, each of dose
\* D x 0.1 / d, and the doses add up to D, whatever d
C20_SquareWaveDosesAddUpToTheDose ==
    query.op = "SquareWaveBolus" =>
        LET mini == query.event.miniBoluses
            steps == {k \in 0..(10 * query.duration_min) :
                          k * TimeStep < 60 * query.duration_min}
        IN  /\ Len(mini) = Cardinality(steps)
            /\ \A k \in steps :
                   /\ mini[k + 1].iov_0_utc = query.time_ut + k * TimeStep
                   /\ mini[k + 1].insulin * query.duration_min = query.insulin * 6
            /\ SumSeq([i \in 1..Len(mini) |-> mini[i].insulin]) = query.insulin

-----------------------------------------------------------------------------
(* The hepatic-release profile, derived from recorded source arrays *)

\* basal-rate schedules: the one that changes at 12:30, and a constant one
HepaticBasalArrays == BasalRateArrays \cup {<<[time_seconds |-> 0, value |-> 10]>>}

\* duration schedules in hours: 4 all day, 4 falling to 2 at 12:30, and
\* 2 rising to 4 at 12:30
HepaticDurationArrays ==
    {<<[time_seconds |-> 0, value |-> 4]>>,
     <<[time_seconds |-> 0, value |-> 4], [time_seconds |-> 45000, value |-> 2]>>,
     <<[time_seconds |-> 0, value |-> 2], [time_seconds |-> 45000, value |-> 4]>>}

\* what AddHourlyGlucoseFromArrays prints
PrintedByAddHourlyGlucose(p) ==
    IF SensitivitySet(p) THEN ""
    ELSE "Error - tried to make basal glucose, but sensitivity is not set!"

\* profile.AddHourlyGlucoseFromArrays(h_basal, h_duration), with the arrays,
\* the list as it was before the call and the line printed kept in the query
RecordedAddHourlyGlucoseFromArrays ==
    \E h_basal \in HepaticBasalArrays, h_duration \in HepaticDurationArrays :
        /\ profile' = AddHourlyGlucoseFromArrays(profile, h_basal, h_duration)
        /\ query' = [op |-> "AddHourlyGlucoseFromArrays",
                     h_basal |-> h_basal, h_duration |-> h_duration,
                     before |-> profile.LiverHourlyGlucose,
                     printed |-> PrintedByAddHourlyGlucose(profile)]
        /\ UNCHANGED <<settings_24h, lookup, containers, basal>>

NextHepatic ==
    \/ DoAddSensitivityFromArrays
    \/ DoSetInsulinSensitivity
    \/ RecordedAddHourlyGlucoseFromArrays

SpecHepatic == InitProfile /\ [][NextHepatic]_vars

\* C21: after AddHourlyGlucoseFromArrays(basal, duration) on a profile whose
\* insulin sensitivity is set, for every source bin i of the 48 the entry of
\* LiverHourlyGlucose at bin (i + floor((duration_i / 2) / 0.5)) mod 48 is
\* -basal_i x InsulinSensitivity[i], whatever the duration schedule; when
\* the sensitivity is all zero the call prints an error and leaves
\* LiverHourlyGlucose as it was
C21_ShiftedBinHoldsTheProduct ==
    query.op = "AddHourlyGlucoseFromArrays" =>
        LET tmp_basal == SettingsArrayToList(query.h_basal)
            tmp_duration == SettingsArrayToList(query.h_duration)
        IN  IF SensitivitySet(profile)
            THEN \A i \in 0..(nBins - 1) :
                     profile.LiverHourlyGlucose[((i + tmp_duration[i + 1]) % nBins) + 1]
                         = -tmp_basal[i + 1] * profile.InsulinSensitivity[i + 1]
            ELSE /\ query.printed # ""
                 /\ profile.LiverHourlyGlucose = query.before

=============================================================================
